---- MODULE Spec2Model ----
(***************************************************************************)
(* State-machine model of the package engine: the deployment record in     *)
(* the cluster (package cluster), the package sources (package sources),   *)
(* and the OCI transport (package oci).                                    *)
(*                                                                         *)
(* Each subsystem has its own specification (SpecRecord, SpecLoad,         *)
(* SpecPull, SpecCopy, SpecCollect); the variables of the other subsystems *)
(* stay at their idle values.                                              *)
(***************************************************************************)
EXTENDS Integers, Sequences, FiniteSets, TLC

VARIABLES
    \* ---- cluster: the deployment record secret and its writers
    secret,              \* the secret <prefix><package>: NoSecret or [data, rv]
    nextRv,              \* the API server's next resource version
    rpdPc,               \* position of RecordPackageDeploymentAndWait
    generation,          \* its generation argument
    skipWebhooks,        \* its skipWebhooks argument
    pkgYolo,             \* pkg.Metadata.YOLO of its pkg argument
    componentWebhooks,   \* RecordPackageDeployment's local componentWebhooks
    rpdReadRv,           \* resource version seen by RecordPackageDeployment's read (0: none)
    deployedPackage,     \* RecordPackageDeploymentAndWait's local deployedPackage
    waitDuration,        \* its local waitDuration, in poll intervals (seconds)
    elapsed,             \* poll intervals elapsed since PollUntilContextTimeout began
    waited,              \* the call went through the poll loop
    deploys,             \* calls of RecordPackageDeploymentAndWait started
    hookPc,              \* position of the webhook writer (UpdateDeployedPackage)
    depPkg,              \* UpdateDeployedPackage's depPkg argument
    hookReadRv,          \* resource version the webhook writer read depPkg at
    hookWrites,          \* calls of UpdateDeployedPackage started
    deletes,             \* DeleteDeployedPackage has been called
    lostUpdate,          \* history: a write replaced a version its writer never read
    \* ---- sources: one LoadPackage / LoadPackageMetadata call
    loadPc,              \* the step the call is at
    loadIn,              \* the call: source variant, operation, options, outcomes of its callees
    loadSteps,           \* the steps the call has run, in order
    loadResult,          \* "none" while running, "ok", or the error returned
    \* ---- oci: a published package and one pull of it
    published,           \* the published package: its zarf.yaml and what the manifest holds
    pullPc,              \* "idle", "layers" (layers chosen), "pulled"
    requestedComponents, \* argument of LayersFromRequestedComponents
    layersToPull,        \* result of the layer lookup: the argument of PullPackage, and err
    pulled,              \* result of PullPackage: partialPaths, shas, the layers copied, err
    \* ---- oci: Copy from a source registry to a destination registry
    dstBlobs,            \* the blobs the destination holds
    copyPc,              \* the step Copy is at
    copyInclude,         \* Copy's include argument: nil, or the layers it lets through
    copyLayers,          \* Copy's local layers: the selected layers, then the config
    copyIdx,             \* index into copyLayers of the loop iteration
    copyTracked,         \* progressTracker != nil
    copyLog,             \* this run's registry and tracker calls, in order
    copyErr,             \* "none" while running, "nil" or the error returned
    copyRuns,            \* runs of Copy started
    copyPrev,            \* the earlier runs of Copy: the last error, the blobs pushed
    \* ---- sources: SplitTarballSource.Collect
    files,               \* the directory: file name -> content
    PackageSource,       \* s.PackageSource
    Shasum,              \* s.Shasum
    collectPc,           \* the step Collect is at
    dstTarball,          \* Collect's argument
    fileList,            \* the sorted result of Glob
    fileIdx,             \* idx of the loop over fileList
    pkgData,             \* the header read from the first file
    collectErr,          \* "none" while running, "nil" or the error returned
    filesAtCall,         \* the directory as it was when Collect was called
    removeFailed,        \* the files whose os.Remove failed
    collects,            \* calls of Collect made
    \* ---- utils: SplitFile
    splitPc,             \* the step SplitFile is at
    original,            \* the content of the file at path
    fileBytes,           \* SplitFile's local file: the bytes not yet in a chunk
    chunks,              \* SplitFile's result chunks
    sha256sum,           \* SplitFile's result sha256sum
    chunkSizeBytes,      \* SplitFile's parameter, which the loop assigns to
    chunkSizeAtCall,     \* the chunk size SplitFile was called with
    \* ---- bundler: Deploy
    bundlePc,            \* the step Deploy is at
    bundleYaml,          \* the packages listed in the bundle's metadata file
    bundle,              \* b.bundle.Packages
    bundleIdx,           \* the loop's position in b.bundle.Packages
    bundleLog,           \* the calls Deploy has made, with their outcome
    bundleErr,           \* "none" while running, "nil" or the error returned
    \* ---- utils: ReplaceTextTemplate
    tplPc,               \* the step ReplaceTextTemplate is at
    pathContent,         \* the content of the file at path
    mappings,            \* the mappings argument: template key -> TextTemplate
    scanned,             \* the lines fileScanner has still to return
    text,                \* ReplaceTextTemplate's local text
    tplErr,              \* "none" while running, "nil" or the error returned
    tplRuns,             \* calls of ReplaceTextTemplate made
    contentAtCall,       \* the content of the file when the call was made
    rendered,            \* the previous call: whether it succeeded, what it wrote
    \* ---- creator.ComposeComponents and Packager.composeComponents
    composePc,           \* the step the composition is at
    composeFn,           \* which of the two functions has been called
    pkgComponents,       \* pkg.Components (p.cfg.Pkg.Components)
    arch,                \* pkg.Build.Architecture (p.arch)
    Flavor,              \* createOpts.Flavor
    composeIdx,          \* the loop's position in pkg.Components
    components,          \* the local components
    warnings,            \* the returned warnings (p.warnings)
    OCIImportedComponents, \* p.cfg.Pkg.Build.OCIImportedComponents: url -> name
    chain,               \* the local chain
    chains,              \* the import chains built so far
    composeErr,          \* "none" while running, "nil" or the error returned
    componentsAtCall,    \* pkg.Components when the call was made
    \* ---- sources: OCISource.LoadPackage
    ociPc,               \* the step OCISource.LoadPackage is at
    OptionalComponents,  \* s.OptionalComponents
    Confirm,             \* config.CommonOptions.Confirm
    ociLayersToPull,     \* the local layersToPull
    isPartial,           \* the local isPartial
    layersFetched,       \* what PullPackage did
    missingFile,         \* a file listed in checksums.txt is not in the layout
    ociErr,              \* "none" while running, "nil" or the error returned
    \* ---- bigbang: Create
    createPc,            \* the step Create is at
    createIn,            \* the arguments skipFlux, airgap and the number of valuesFileManifests
    createIdx,           \* the position of Create in its steps
    tmpDir,              \* the temp directory of Create: "none", "exists" or "removed"
    tmpFiles,            \* the files in the temp directory
    baseFiles,           \* the files in baseDir
    createErr,           \* "none" while running, "nil" or the error returned
    createFailed,        \* a step of Create has failed
    \* ---- helm: NewFromZarfManifest
    helmPc,              \* the step NewFromZarfManifest is at
    helmIn,              \* the arguments: packageName, componentName, manifest.Name
    helmCharts,          \* h.chart of the calls that have returned, with their arguments
    helmErr,             \* "none" while running, "nil" or the error returned
    \* ---- utils: ExecuteWait, waitForNetworkEndpoint
    waitPc,              \* position in ExecuteWait / waitForNetworkEndpoint
    waitIn,              \* the arguments of the call
    waitNow,             \* the clock, in tenths of a second
    waitDeadline,        \* when the channel of time.After(timeout) delivers
    waitDelay,           \* delay (waitForNetworkEndpoint), one second in ExecuteWait
    waitIter,            \* what the current turn of the loop saw
    waitErr,             \* the error returned
    \* ---- oci: the goroutines of Copy
    cpPc,                \* position of Copy in the loop over the layers
    cpIn,                \* concurrency, whether a tracker is given, the number of layers
    cpIdx,               \* idx, counted from 1
    sem,                 \* the permits of sem that are taken
    progressG,           \* the goroutine feeding the progress tracker from pr
    pushG,               \* the goroutine pushing tr to the destination
    pipe,                \* the pipe pr, pw: a write pending, pw closed
    rcLeft,              \* the reads of rc left before its end
    ectxDone,            \* ectx is cancelled
    egErr,               \* the first error of the group
    cpErr,               \* the error Copy returned
    \* ---- cluster: PackageSecretNeedsWait
    nwPc,                \* position in PackageSecretNeedsWait
    nwIn,                \* deployedPackage, the name of the component, skipWebhooks
    nwOut                \* needsWait, waitSeconds, hookName

recVars == <<secret, nextRv, rpdPc, generation, skipWebhooks, pkgYolo,
             componentWebhooks, rpdReadRv, deployedPackage, waitDuration,
             elapsed, waited, deploys, hookPc, depPkg, hookReadRv,
             hookWrites, deletes, lostUpdate>>

loadVars == <<loadPc, loadIn, loadSteps, loadResult>>

pullVars == <<published, pullPc, requestedComponents, layersToPull, pulled>>

copyVars == <<dstBlobs, copyPc, copyInclude, copyLayers, copyIdx, copyTracked, copyLog,
              copyErr, copyRuns, copyPrev>>

collectVars == <<files, PackageSource, Shasum, collectPc, dstTarball, fileList,
                 fileIdx, pkgData, collectErr, filesAtCall, removeFailed,
                 collects>>

splitVars == <<splitPc, original, fileBytes, chunks, sha256sum, chunkSizeBytes,
               chunkSizeAtCall>>

bundleVars == <<bundlePc, bundleYaml, bundle, bundleIdx, bundleLog, bundleErr>>

composeVars == <<composePc, composeFn, pkgComponents, arch, Flavor, composeIdx,
                 components, warnings, OCIImportedComponents, chain, chains,
                 composeErr, componentsAtCall>>

tplVars == <<tplPc, pathContent, mappings, scanned, text, tplErr, tplRuns,
             contentAtCall, rendered>>

ociVars == <<ociPc, OptionalComponents, Confirm, ociLayersToPull, isPartial,
    layersFetched, missingFile, ociErr>>

createVars == <<createPc, createIn, createIdx, tmpDir, tmpFiles, baseFiles,
    createErr, createFailed>>

helmVars == <<helmPc, helmIn, helmCharts, helmErr>>

waitVars == <<waitPc, waitIn, waitNow, waitDeadline, waitDelay, waitIter,
    waitErr>>

cpVars == <<cpPc, cpIn, cpIdx, sem, progressG, pushG, pipe, rcLeft, ectxDone,
    egErr, cpErr>>

nwVars == <<nwPc, nwIn, nwOut>>

vars == <<recVars, loadVars, pullVars, copyVars, collectVars, splitVars,
          bundleVars, tplVars, composeVars, ociVars, createVars,
    helmVars, waitVars, cpVars, nwVars>>

nonRecVars == <<loadVars, pullVars, copyVars, collectVars, splitVars, bundleVars,
    tplVars, composeVars, ociVars, createVars, helmVars, waitVars,
    cpVars, nwVars>>
nonLoadVars == <<recVars, pullVars, copyVars, collectVars, splitVars, bundleVars,
    tplVars, composeVars, ociVars, createVars, helmVars, waitVars,
    cpVars, nwVars>>
nonPullVars == <<recVars, loadVars, copyVars, collectVars, splitVars, bundleVars,
    tplVars, composeVars, ociVars, createVars, helmVars, waitVars,
    cpVars, nwVars>>
nonCopyVars == <<recVars, loadVars, pullVars, collectVars, splitVars, bundleVars,
    tplVars, composeVars, ociVars, createVars, helmVars, waitVars,
    cpVars, nwVars>>
nonCollectVars == <<recVars, loadVars, pullVars, copyVars, splitVars, bundleVars,
    tplVars, composeVars, ociVars, createVars, helmVars, waitVars,
    cpVars, nwVars>>
nonSplitVars == <<recVars, loadVars, pullVars, copyVars, bundleVars,
    tplVars, composeVars, ociVars, createVars, helmVars, waitVars,
    cpVars, nwVars>>
nonTplVars == <<recVars, loadVars, pullVars, copyVars, collectVars, splitVars,
                bundleVars, composeVars, ociVars, createVars,
    helmVars, waitVars, cpVars, nwVars>>
nonComposeVars == <<recVars, loadVars, pullVars, copyVars, collectVars, splitVars,
                    bundleVars, tplVars, ociVars, createVars,
    helmVars, waitVars, cpVars, nwVars>>
nonBundleVars == <<recVars, loadVars, pullVars, copyVars, collectVars, splitVars,
    tplVars, composeVars, ociVars, createVars, helmVars, waitVars,
    cpVars, nwVars>>
nonOCIVars == <<recVars, loadVars, copyVars, collectVars, splitVars,
    bundleVars, tplVars, composeVars, createVars, helmVars,
    waitVars, cpVars, nwVars>>
nonCreateVars == <<recVars, loadVars, pullVars, copyVars, collectVars,
    splitVars, bundleVars, tplVars, composeVars, ociVars, helmVars,
    waitVars, cpVars, nwVars>>
nonHelmVars == <<recVars, loadVars, pullVars, copyVars, collectVars,
    splitVars, bundleVars, tplVars, composeVars, ociVars, createVars,
    waitVars, cpVars, nwVars>>
nonWaitVars == <<recVars, loadVars, pullVars, copyVars, collectVars,
    splitVars, bundleVars, tplVars, composeVars, ociVars, createVars,
    helmVars, cpVars, nwVars>>
nonCpVars == <<recVars, loadVars, pullVars, copyVars, collectVars, splitVars,
    bundleVars, tplVars, composeVars, ociVars, createVars, helmVars,
    waitVars, nwVars>>
nonNwVars == <<recVars, loadVars, pullVars, copyVars, collectVars, splitVars,
    bundleVars, tplVars, composeVars, ociVars, createVars, helmVars,
    waitVars, cpVars>>

----------------------------------------------------------------------------
(* Bounds *)

MaxDeploys == 1
MaxHookWrites == 1
MaxGeneration == 2
MaxWaitSeconds == 1
\* types.DefaultWebhookWaitDuration, scaled to poll intervals
DefaultWebhookWaitDuration == 2

----------------------------------------------------------------------------
(* Idle values of each subsystem's variables *)

LoadIdle ==
    /\ loadPc = "idle"
    /\ loadIn = [kind |-> "none"]
    /\ loadSteps = <<>>
    /\ loadResult = "none"

PullIdle ==
    /\ published = [name |-> "none"]
    /\ pullPc = "idle"
    /\ requestedComponents = {}
    /\ layersToPull = [layers |-> <<>>, err |-> FALSE]
    /\ pulled = [returned |-> FALSE]

CopyIdle ==
    /\ dstBlobs = {}
    /\ copyPc = "idle"
    /\ copyInclude = [isNil |-> TRUE, layers |-> {}]
    /\ copyLayers = <<>>
    /\ copyIdx = 0
    /\ copyTracked = FALSE
    /\ copyLog = <<>>
    /\ copyErr = "none"
    /\ copyRuns = 0
    /\ copyPrev = [err |-> "none", pushed |-> {}]

NoSha == <<>>
NoFiles == [n \in {} |-> {}]

CollectIdle ==
    /\ files = NoFiles
    /\ PackageSource = ""
    /\ Shasum = NoSha
    /\ collectPc = "idle"
    /\ dstTarball = ""
    /\ fileList = <<>>
    /\ fileIdx = 0
    /\ pkgData = [count |-> 0, sha256Sum |-> NoSha]
    /\ collectErr = "none"
    /\ filesAtCall = NoFiles
    /\ removeFailed = {}
    /\ collects = 0

SplitIdle ==
    /\ splitPc = "idle"
    /\ original = <<>>
    /\ fileBytes = <<>>
    /\ chunks = <<>>
    /\ sha256sum = NoSha
    /\ chunkSizeBytes = 0
    /\ chunkSizeAtCall = 0

BundleIdle ==
    /\ bundlePc = "idle"
    /\ bundleYaml = <<>>
    /\ bundle = <<>>
    /\ bundleIdx = 0
    /\ bundleLog = <<>>
    /\ bundleErr = "none"

TplIdle ==
    /\ tplPc = "idle"
    /\ pathContent = <<>>
    /\ mappings = <<>>
    /\ scanned = <<>>
    /\ text = <<>>
    /\ tplErr = "none"
    /\ tplRuns = 0
    /\ contentAtCall = <<>>
    /\ rendered = [ok |-> FALSE, input |-> <<>>, content |-> <<>>]

ComposeIdle ==
    /\ composePc = "idle"
    /\ composeFn = "none"
    /\ pkgComponents = <<>>
    /\ arch = ""
    /\ Flavor = ""
    /\ composeIdx = 0
    /\ components = <<>>
    /\ warnings = <<>>
    /\ OCIImportedComponents = <<>>
    /\ chain = <<>>
    /\ chains = <<>>
    /\ composeErr = "none"
    /\ componentsAtCall = <<>>

----------------------------------------------------------------------------
(* The deployment record (types.DeployedPackage) *)

NoSecret == [absent |-> TRUE]
NoHook == [status |-> "none", waitDurationSeconds |-> 0]
NoPackage == [nil |-> TRUE]

WebhookStatusRunning == "running"
WebhookStatuses == {"running", "succeeded", "failed", "removing"}

\* One component, one hook name: the webhook entry of the component being deployed.
Webhooks == {NoHook} \cup
    [status : WebhookStatuses, waitDurationSeconds : 0..MaxWaitSeconds]

\* A record that counts the generation up by itself.
DeployedPackageNextGeneration(gen, yolo, hook) ==
    [generation |-> gen + 1, yolo |-> yolo, hook |-> hook]

\* Lines 462-470: types.DeployedPackage, with Generation: generation
DeployedPackage(gen, yolo, hook) ==
    [generation |-> gen, yolo |-> yolo, hook |-> hook]

\* GetDeployedPackage: the record in the secret, or nil with an error.
GetDeployedPackage == IF secret = NoSecret THEN NoPackage ELSE secret.data

\* PackageSecretNeedsWait: <<needsWait, waitSeconds>>.
PackageSecretNeedsWait(pkg, skip) ==
    IF skip \/ pkg = NoPackage \/ pkg.yolo
    THEN <<FALSE, 0>>
    ELSE IF pkg.hook = NoHook
         THEN <<FALSE, 0>>
         ELSE IF pkg.hook.status = WebhookStatusRunning
              THEN <<TRUE, pkg.hook.waitDurationSeconds>>
              ELSE <<FALSE, 0>>

\* The condition function handed to PollUntilContextTimeout, after its re-fetch:
\* whether polling is over.
PollCondition(packageNeedsWait) ==
    IF ~packageNeedsWait THEN TRUE ELSE TRUE

\* waitDuration of RecordPackageDeploymentAndWait.
WaitDurationOf(waitSeconds) ==
    IF waitSeconds > 0 THEN waitSeconds ELSE DefaultWebhookWaitDuration

\* Secrets().Update with no resourceVersion in the object: unconditional.
UpdateSecret(data) ==
    /\ secret' = [data |-> data, rv |-> nextRv]
    /\ nextRv' = nextRv + 1

\* Secrets().Create
CreateSecret(data) ==
    /\ secret' = [data |-> data, rv |-> nextRv]
    /\ nextRv' = nextRv + 1

----------------------------------------------------------------------------
(* RecordPackageDeploymentAndWait / RecordPackageDeployment *)

\* RecordPackageDeployment, lines 443-450: read the existing record's webhooks.
RPD_Get ==
    /\ rpdPc = "idle"
    /\ deploys < MaxDeploys
    /\ \E g \in 1..MaxGeneration, skip \in BOOLEAN, yolo \in BOOLEAN :
         /\ generation' = g
         /\ skipWebhooks' = skip
         /\ pkgYolo' = yolo
    /\ componentWebhooks' =
         IF GetDeployedPackage = NoPackage THEN NoHook ELSE GetDeployedPackage.hook
    /\ rpdReadRv' = IF secret = NoSecret THEN 0 ELSE secret.rv
    /\ deploys' = deploys + 1
    /\ rpdPc' = "create"
    /\ waited' = FALSE
    /\ deployedPackage' = NoPackage
    /\ UNCHANGED nonRecVars
    /\ UNCHANGED <<secret, nextRv, waitDuration, elapsed, hookPc, depPkg,
                   hookReadRv, hookWrites, deletes, lostUpdate>>

\* RecordPackageDeployment, lines 497-503: Create, which answers AlreadyExists
\* when the secret is there.
RPD_Create ==
    /\ rpdPc = "create"
    /\ IF secret = NoSecret
       THEN /\ CreateSecret(DeployedPackage(generation, pkgYolo, componentWebhooks))
            /\ deployedPackage' = DeployedPackage(generation, pkgYolo, componentWebhooks)
            /\ rpdPc' = "recorded"
       ELSE /\ rpdPc' = "update"
            /\ UNCHANGED <<secret, nextRv, deployedPackage>>
    /\ UNCHANGED nonRecVars
    /\ UNCHANGED <<generation, skipWebhooks, pkgYolo, componentWebhooks, rpdReadRv,
                   waitDuration, elapsed, waited, deploys, hookPc, depPkg,
                   hookReadRv, hookWrites, deletes, lostUpdate>>

\* RecordPackageDeployment, lines 504-516: Update after AlreadyExists.
RPD_Update ==
    /\ rpdPc = "update"
    /\ IF secret = NoSecret
       THEN /\ rpdPc' = "error"
            /\ UNCHANGED <<secret, nextRv, deployedPackage, lostUpdate>>
       ELSE /\ UpdateSecret(DeployedPackage(generation, pkgYolo, componentWebhooks))
            /\ deployedPackage' = DeployedPackage(generation, pkgYolo, componentWebhooks)
            /\ lostUpdate' = (lostUpdate \/ secret.rv # rpdReadRv)
            /\ rpdPc' = "recorded"
    /\ UNCHANGED nonRecVars
    /\ UNCHANGED <<generation, skipWebhooks, pkgYolo, componentWebhooks, rpdReadRv,
                   waitDuration, elapsed, waited, deploys, hookPc, depPkg,
                   hookReadRv, hookWrites, deletes>>

\* RecordPackageDeploymentAndWait, lines 406-418.
RPDW_NeedsWait ==
    /\ rpdPc = "recorded"
    /\ LET r == PackageSecretNeedsWait(deployedPackage, skipWebhooks) IN
         IF ~r[1]
         THEN /\ rpdPc' = "ok"
              /\ UNCHANGED <<waitDuration, elapsed>>
         ELSE /\ rpdPc' = "poll"
              /\ waitDuration' = WaitDurationOf(r[2])
              /\ elapsed' = 0
    /\ UNCHANGED nonRecVars
    /\ UNCHANGED <<secret, nextRv, generation, skipWebhooks, pkgYolo,
                   componentWebhooks, rpdReadRv, deployedPackage, waited, deploys,
                   hookPc, depPkg, hookReadRv, hookWrites, deletes, lostUpdate>>

\* One tick of PollUntilContextTimeout (interval one second, immediate false):
\* the condition function of lines 419-430.
RPDW_PollTick ==
    /\ rpdPc = "poll"
    /\ elapsed + 1 <= waitDuration
    /\ elapsed' = elapsed + 1
    /\ waited' = TRUE
    /\ IF GetDeployedPackage = NoPackage
       THEN /\ rpdPc' = "error"
            /\ UNCHANGED deployedPackage
       ELSE /\ deployedPackage' = GetDeployedPackage
            /\ rpdPc' =
                 IF PollCondition(PackageSecretNeedsWait(GetDeployedPackage, skipWebhooks)[1])
                 THEN "ok" ELSE "poll"
    /\ UNCHANGED nonRecVars
    /\ UNCHANGED <<secret, nextRv, generation, skipWebhooks, pkgYolo,
                   componentWebhooks, rpdReadRv, waitDuration, deploys,
                   hookPc, depPkg, hookReadRv, hookWrites, deletes, lostUpdate>>

\* The timeout of PollUntilContextTimeout: the deadline is reached before, or
\* together with, the next tick.
RPDW_PollTimeout ==
    /\ rpdPc = "poll"
    /\ elapsed + 1 >= waitDuration
    /\ rpdPc' = "error"
    /\ waited' = TRUE
    /\ elapsed' = waitDuration
    /\ UNCHANGED nonRecVars
    /\ UNCHANGED <<secret, nextRv, generation, skipWebhooks, pkgYolo,
                   componentWebhooks, rpdReadRv, deployedPackage, waitDuration,
                   deploys, hookPc, depPkg, hookReadRv, hookWrites, deletes,
                   lostUpdate>>

\* The call has returned; the deployer goes on to its next component.
RPDW_Return ==
    /\ rpdPc \in {"ok", "error"}
    /\ rpdPc' = "idle"
    /\ generation' = 1
    /\ skipWebhooks' = FALSE
    /\ pkgYolo' = FALSE
    /\ componentWebhooks' = NoHook
    /\ rpdReadRv' = 0
    /\ deployedPackage' = NoPackage
    /\ waitDuration' = DefaultWebhookWaitDuration
    /\ elapsed' = 0
    /\ waited' = FALSE
    /\ UNCHANGED nonRecVars
    /\ UNCHANGED <<secret, nextRv, deploys, hookPc, depPkg, hookReadRv,
                   hookWrites, deletes, lostUpdate>>

\* RecordPackageDeployment called on its own, lines 510-516: it returns the
\* record or the error.
RPD_Return ==
    /\ rpdPc \in {"recorded", "error"}
    /\ rpdPc' = "idle"
    /\ generation' = 1
    /\ skipWebhooks' = FALSE
    /\ pkgYolo' = FALSE
    /\ componentWebhooks' = NoHook
    /\ rpdReadRv' = 0
    /\ deployedPackage' = NoPackage
    /\ UNCHANGED nonRecVars
    /\ UNCHANGED <<secret, nextRv, waitDuration, elapsed, waited, deploys, hookPc,
                   depPkg, hookReadRv, hookWrites, deletes, lostUpdate>>

----------------------------------------------------------------------------
(* The webhook writer: reads the record, sets the hook, UpdateDeployedPackage *)

\* The caller of UpdateDeployedPackage: GetDeployedPackage, then the hook is set.
Hook_Read ==
    /\ hookPc = "idle"
    /\ hookWrites < MaxHookWrites
    /\ secret # NoSecret
    /\ \E h \in Webhooks \ {NoHook} :
         depPkg' = [GetDeployedPackage EXCEPT !.hook = h]
    /\ hookReadRv' = secret.rv
    /\ hookWrites' = hookWrites + 1
    /\ hookPc' = "get"
    /\ UNCHANGED nonRecVars
    /\ UNCHANGED <<secret, nextRv, rpdPc, generation, skipWebhooks, pkgYolo,
                   componentWebhooks, rpdReadRv, deployedPackage, waitDuration,
                   elapsed, waited, deploys, deletes, lostUpdate>>

\* UpdateDeployedPackage, lines 303-306: the existence check.
UDP_Get ==
    /\ hookPc = "get"
    /\ hookPc' = IF secret = NoSecret THEN "create" ELSE "update"
    /\ UNCHANGED nonRecVars
    /\ UNCHANGED <<secret, nextRv, rpdPc, generation, skipWebhooks, pkgYolo,
                   componentWebhooks, rpdReadRv, deployedPackage, waitDuration,
                   elapsed, waited, deploys, depPkg, hookReadRv, hookWrites,
                   deletes, lostUpdate>>

\* UpdateDeployedPackage, lines 307-313: Create after NotFound.
UDP_Create ==
    /\ hookPc = "create"
    /\ IF secret = NoSecret
       THEN CreateSecret(depPkg)
       ELSE UNCHANGED <<secret, nextRv>>
    /\ hookPc' = "idle"
    /\ depPkg' = NoPackage
    /\ hookReadRv' = 0
    /\ UNCHANGED nonRecVars
    /\ UNCHANGED <<rpdPc, generation, skipWebhooks, pkgYolo,
                   componentWebhooks, rpdReadRv, deployedPackage, waitDuration,
                   elapsed, waited, deploys, hookWrites, deletes, lostUpdate>>

\* UpdateDeployedPackage, lines 314-318: Update.
UDP_Update ==
    /\ hookPc = "update"
    /\ IF secret = NoSecret
       THEN UNCHANGED <<secret, nextRv, lostUpdate>>
       ELSE /\ UpdateSecret(depPkg)
            /\ lostUpdate' = (lostUpdate \/ secret.rv # hookReadRv)
    /\ hookPc' = "idle"
    /\ depPkg' = NoPackage
    /\ hookReadRv' = 0
    /\ UNCHANGED nonRecVars
    /\ UNCHANGED <<rpdPc, generation, skipWebhooks, pkgYolo,
                   componentWebhooks, rpdReadRv, deployedPackage, waitDuration,
                   elapsed, waited, deploys, hookWrites, deletes>>

\* DeleteDeployedPackage
DeleteDeployedPackage ==
    /\ secret # NoSecret
    /\ ~deletes
    /\ secret' = NoSecret
    /\ deletes' = TRUE
    /\ UNCHANGED nonRecVars
    /\ UNCHANGED <<nextRv, rpdPc, generation, skipWebhooks, pkgYolo,
                   componentWebhooks, rpdReadRv, deployedPackage, waitDuration,
                   elapsed, waited, deploys, hookPc, depPkg, hookReadRv,
                   hookWrites, lostUpdate>>

OCIIdle ==
    /\ ociPc = "idle"
    /\ OptionalComponents = {}
    /\ Confirm = FALSE
    /\ ociLayersToPull = <<>>
    /\ isPartial = FALSE
    /\ layersFetched = [returned |-> FALSE]
    /\ missingFile = FALSE
    /\ ociErr = "none"

CreateIdle ==
    /\ createPc = "idle"
    /\ createIn = [skipFlux |-> FALSE, airgap |-> FALSE, valuesFileManifests |-> 0]
    /\ createIdx = 0
    /\ tmpDir = "none"
    /\ tmpFiles = {}
    /\ baseFiles = {}
    /\ createErr = "none"
    /\ createFailed = FALSE

HelmIdle ==
    /\ helmPc = "idle"
    /\ helmIn = <<>>
    /\ helmCharts = <<>>
    /\ helmErr = "none"

WaitIdle ==
    /\ waitPc = "idle"
    /\ waitIn = <<>>
    /\ waitNow = 0
    /\ waitDeadline = 0
    /\ waitDelay = 0
    /\ waitIter = <<>>
    /\ waitErr = "none"

CpIdle ==
    /\ cpPc = "idle"
    /\ cpIn = <<>>
    /\ cpIdx = 0
    /\ sem = 0
    /\ progressG = "none"
    /\ pushG = "none"
    /\ pipe = <<>>
    /\ rcLeft = 0
    /\ ectxDone = FALSE
    /\ egErr = "nil"
    /\ cpErr = "none"

NwIdle ==
    /\ nwPc = "idle"
    /\ nwIn = <<>>
    /\ nwOut = <<>>

RecordIdle ==
    /\ secret = NoSecret /\ nextRv = 1 /\ rpdPc = "idle" /\ generation = 1
    /\ skipWebhooks = FALSE /\ pkgYolo = FALSE /\ componentWebhooks = NoHook
    /\ rpdReadRv = 0 /\ deployedPackage = NoPackage
    /\ waitDuration = DefaultWebhookWaitDuration /\ elapsed = 0 /\ waited = FALSE
    /\ deploys = 0 /\ hookPc = "idle" /\ depPkg = NoPackage /\ hookReadRv = 0
    /\ hookWrites = 0 /\ deletes = FALSE /\ lostUpdate = FALSE

NonRecIdle == LoadIdle /\ PullIdle /\ CopyIdle /\ CollectIdle /\ SplitIdle /\ BundleIdle
    /\ TplIdle /\ ComposeIdle /\ OCIIdle /\ CreateIdle /\ HelmIdle /\ WaitIdle /\ CpIdle /\ NwIdle
NonLoadIdle == RecordIdle /\ PullIdle /\ CopyIdle /\ CollectIdle /\ SplitIdle /\ BundleIdle
    /\ TplIdle /\ ComposeIdle /\ OCIIdle /\ CreateIdle /\ HelmIdle /\ WaitIdle /\ CpIdle /\ NwIdle
NonPullIdle == RecordIdle /\ LoadIdle /\ CopyIdle /\ CollectIdle /\ SplitIdle /\ BundleIdle
    /\ TplIdle /\ ComposeIdle /\ OCIIdle /\ CreateIdle /\ HelmIdle /\ WaitIdle /\ CpIdle /\ NwIdle
NonCopyIdle == RecordIdle /\ LoadIdle /\ PullIdle /\ CollectIdle /\ SplitIdle /\ BundleIdle
    /\ TplIdle /\ ComposeIdle /\ OCIIdle /\ CreateIdle /\ HelmIdle /\ WaitIdle /\ CpIdle /\ NwIdle
NonCollectIdle == RecordIdle /\ LoadIdle /\ PullIdle /\ CopyIdle /\ SplitIdle /\ BundleIdle
    /\ TplIdle /\ ComposeIdle /\ OCIIdle /\ CreateIdle /\ HelmIdle /\ WaitIdle /\ CpIdle /\ NwIdle
NonSplitIdle == RecordIdle /\ LoadIdle /\ PullIdle /\ CopyIdle /\ BundleIdle
    /\ TplIdle /\ ComposeIdle /\ OCIIdle /\ CreateIdle /\ HelmIdle /\ WaitIdle /\ CpIdle /\ NwIdle
NonBundleIdle ==
    RecordIdle /\ LoadIdle /\ PullIdle /\ CopyIdle /\ CollectIdle /\ SplitIdle
    /\ TplIdle /\ ComposeIdle /\ OCIIdle /\ CreateIdle /\ HelmIdle /\ WaitIdle /\ CpIdle /\ NwIdle
NonTplIdle ==
    RecordIdle /\ LoadIdle /\ PullIdle /\ CopyIdle /\ CollectIdle /\ SplitIdle
    /\ BundleIdle /\ ComposeIdle /\ OCIIdle /\ CreateIdle /\ HelmIdle /\ WaitIdle /\ CpIdle /\ NwIdle
NonComposeIdle ==
    RecordIdle /\ LoadIdle /\ PullIdle /\ CopyIdle /\ CollectIdle /\ SplitIdle
    /\ BundleIdle /\ TplIdle /\ OCIIdle /\ CreateIdle /\ HelmIdle /\ WaitIdle /\ CpIdle /\ NwIdle
NonOCIIdle ==
    RecordIdle /\ LoadIdle /\ CopyIdle /\ CollectIdle /\ SplitIdle
    /\ BundleIdle /\ TplIdle /\ ComposeIdle /\ CreateIdle /\ HelmIdle /\ WaitIdle /\ CpIdle /\ NwIdle
NonCreateIdle ==
    RecordIdle /\ LoadIdle /\ PullIdle /\ CopyIdle /\ CollectIdle
    /\ SplitIdle /\ BundleIdle /\ TplIdle /\ ComposeIdle /\ OCIIdle /\ HelmIdle /\ WaitIdle /\ CpIdle /\ NwIdle
NonHelmIdle ==
    RecordIdle /\ LoadIdle /\ PullIdle /\ CopyIdle /\ CollectIdle
    /\ SplitIdle /\ BundleIdle /\ TplIdle /\ ComposeIdle /\ CreateIdle
    /\ OCIIdle /\ WaitIdle /\ CpIdle /\ NwIdle
NonWaitIdle ==
    RecordIdle /\ LoadIdle /\ PullIdle /\ CopyIdle /\ CollectIdle
    /\ SplitIdle /\ BundleIdle /\ TplIdle /\ ComposeIdle /\ CreateIdle
    /\ HelmIdle /\ OCIIdle /\ CpIdle /\ NwIdle
NonCpIdle ==
    RecordIdle /\ LoadIdle /\ PullIdle /\ CopyIdle /\ CollectIdle
    /\ SplitIdle /\ BundleIdle /\ TplIdle /\ ComposeIdle /\ CreateIdle
    /\ HelmIdle /\ OCIIdle /\ WaitIdle /\ NwIdle
NonNwIdle ==
    RecordIdle /\ LoadIdle /\ PullIdle /\ CopyIdle /\ CollectIdle
    /\ SplitIdle /\ BundleIdle /\ TplIdle /\ ComposeIdle /\ CpIdle
    /\ CreateIdle /\ HelmIdle /\ OCIIdle /\ WaitIdle

\* The package was never deployed, or an earlier deployment left its record.
InitRecord ==
    /\ secret \in {NoSecret} \cup
         {[data |-> DeployedPackage(1, FALSE, h), rv |-> 1] : h \in Webhooks}
    /\ nextRv = 2
    /\ rpdPc = "idle"
    /\ generation = 1
    /\ skipWebhooks = FALSE
    /\ pkgYolo = FALSE
    /\ componentWebhooks = NoHook
    /\ rpdReadRv = 0
    /\ deployedPackage = NoPackage
    /\ waitDuration = DefaultWebhookWaitDuration
    /\ elapsed = 0
    /\ waited = FALSE
    /\ deploys = 0
    /\ hookPc = "idle"
    /\ depPkg = NoPackage
    /\ hookReadRv = 0
    /\ hookWrites = 0
    /\ deletes = FALSE
    /\ lostUpdate = FALSE
    /\ NonRecIdle

NextRecord ==
    \/ RPD_Get
    \/ RPD_Create
    \/ RPD_Update
    \/ RPDW_NeedsWait
    \/ RPDW_PollTick
    \/ RPDW_PollTimeout
    \/ RPDW_Return
    \/ Hook_Read
    \/ UDP_Get
    \/ UDP_Create
    \/ UDP_Update
    \/ DeleteDeployedPackage

SpecRecord == InitRecord /\ [][NextRecord]_vars

----------------------------------------------------------------------------
(* Package sources: LoadPackage and LoadPackageMetadata of the tarball,     *)
(* split-tarball and OCI sources                                            *)

SourceKinds == {"tarball", "split", "oci"}
LoadOps == {"LoadPackage", "LoadPackageMetadata"}

ErrPkgSigButNoKey == "ErrPkgSigButNoKey"
\* What ValidatePackageSignature returns.
SignatureResults == {"nil", ErrPkgSigButNoKey, "ErrSignatureInvalid"}
\* What ValidatePackageIntegrity returns.
IntegrityResults == {"nil", "ErrIntegrity"}
\* The callee, if any, that fails with an I/O error.
FailPoints == {"none", "collect", "extract", "readyaml", "components", "sboms"}

LoadInputs ==
    [kind : SourceKinds, op : LoadOps, skipValidation : BOOLEAN,
     integrity : IntegrityResults, signature : SignatureResults,
     failAt : FailPoints]

NoLoad == [kind |-> "none"]

\* Mutant: LoadPackage passes over ErrPkgSigButNoKey as LoadPackageMetadata does.
SignatureErrorToleratedEverywhere(op, err, skipValidation) ==
    err = ErrPkgSigButNoKey /\ skipValidation

\* Whether the error of ValidatePackageSignature is passed over with a warning.
\* LoadPackageMetadata (tarball lines 131-137, OCI lines 374-380) passes over
\* ErrPkgSigButNoKey under skipValidation; LoadPackage (lines 86-88, 332-334)
\* passes over nothing.
SignatureErrorTolerated(op, err, skipValidation) ==
    IF op = "LoadPackageMetadata"
    THEN err = ErrPkgSigButNoKey /\ skipValidation
    ELSE FALSE

\* The step that follows `step` when it succeeds.
\* SplitTarballSource runs Collect and hands over to TarballSource.
FirstStep(kind) == IF kind = "split" THEN "collect" ELSE "extract"

\* Mutant: the components are loaded before the signature is validated.
StepAfterComponentsFirst(op, step) ==
    CASE step = "collect" -> "extract"
      [] step = "extract" -> "readyaml"
      [] step = "readyaml" -> "integrity"
      [] step = "integrity" ->
            IF op = "LoadPackage" THEN "components" ELSE "signature"
      [] step = "components" -> "signature"
      [] step = "signature" -> "sboms"
      [] step = "sboms" -> "returned"

StepAfter(op, step) ==
    CASE step = "collect" -> "extract"
      [] step = "extract" -> "readyaml"
      [] step = "readyaml" -> "integrity"
      [] step = "integrity" -> "signature"
      [] step = "signature" ->
            IF op = "LoadPackage" THEN "components" ELSE "sboms"
      [] step = "components" -> "sboms"
      [] step = "sboms" -> "returned"

\* One step of the call: it runs, and on an error the call returns that error.
RunStep(step, err) ==
    /\ loadPc = step
    /\ loadSteps' = Append(loadSteps, step)
    /\ IF err # "nil"
       THEN /\ loadPc' = "returned"
            /\ loadResult' = err
       ELSE /\ loadPc' = StepAfter(loadIn.op, step)
            /\ loadResult' = IF StepAfter(loadIn.op, step) = "returned"
                             THEN "ok" ELSE loadResult
    /\ UNCHANGED loadIn
    /\ UNCHANGED nonLoadVars

IOError(step) == IF loadIn.failAt = step THEN "ErrIO" ELSE "nil"

Load_Call ==
    /\ loadPc = "idle"
    /\ \E in \in LoadInputs :
         /\ (in.failAt = "collect" => in.kind = "split")
         /\ (in.failAt = "components" => in.op = "LoadPackage")
         /\ loadIn' = in
         /\ loadPc' = FirstStep(in.kind)
    /\ loadSteps' = <<>>
    /\ loadResult' = "none"
    /\ UNCHANGED nonLoadVars

\* SplitTarballSource.LoadPackage / LoadPackageMetadata: Collect
Load_Collect == RunStep("collect", IOError("collect"))

\* archiver.Walk / archiver.Extract / PullPackage / PullPackagePaths
Load_Extract == RunStep("extract", IOError("extract"))

\* utils.ReadYaml
Load_ReadYaml == RunStep("readyaml", IOError("readyaml"))

\* ValidatePackageIntegrity
Load_ValidateIntegrity == RunStep("integrity", loadIn.integrity)

\* ValidatePackageSignature
Load_ValidateSignature ==
    RunStep("signature",
            IF /\ loadIn.signature # "nil"
               /\ SignatureErrorTolerated(loadIn.op, loadIn.signature,
                                          loadIn.skipValidation)
            THEN "nil" ELSE loadIn.signature)

\* LoadComponents
Load_Components == RunStep("components", IOError("components"))

\* dst.SBOMs.Unarchive
Load_UnarchiveSBOMs == RunStep("sboms", IOError("sboms"))

\* The call has returned; the next call begins from scratch.
Load_Return ==
    /\ loadPc = "returned"
    /\ loadPc' = "idle"
    /\ loadIn' = NoLoad
    /\ loadSteps' = <<>>
    /\ loadResult' = "none"
    /\ UNCHANGED nonLoadVars

InitLoad ==
    /\ LoadIdle
    /\ NonLoadIdle

NextLoad ==
    \/ Load_Call
    \/ Load_Collect
    \/ Load_Extract
    \/ Load_ReadYaml
    \/ Load_ValidateIntegrity
    \/ Load_ValidateSignature
    \/ Load_Components
    \/ Load_UnarchiveSBOMs
    \/ Load_Return

SpecLoad == InitLoad /\ [][NextLoad]_vars

----------------------------------------------------------------------------
(* OCI transport: LayersFromRequestedComponents and PullPackage             *)

ComponentNames == {"a", "b", "c"}
\* pkg.Components, in declaration order
ComponentOrder == <<"a", "b", "c">>
ImageNames == {"i1", "i2"}
ImageOrder == <<"i1", "i2">>

\* The image manifests of the OCI layout: the two images share the layer ls.
ImageManifest(image) ==
    IF image = "i1"
    THEN [digest |-> "m1", config |-> "c1", layers |-> <<"l1", "ls">>]
    ELSE [digest |-> "m2", config |-> "c2", layers |-> <<"l2", "ls">>]

ZarfYAML == "zarf.yaml"
ZarfChecksumsTxt == "checksums.txt"
ZarfYAMLSignature == "zarf.yaml.sig"
ZarfSBOMTar == "sboms.tar"
IndexPath == "images/index.json"
OCILayoutPath == "images/oci-layout"

PackageAlwaysPull == <<ZarfYAML, ZarfChecksumsTxt, ZarfYAMLSignature>>

Descriptor(title, digest) == [title |-> title, digest |-> digest]
EmptyDescriptor == Descriptor("", "")
isEmptyDescriptor(desc) == desc.digest = ""

ComponentTarPath(name) == "components/" \o name \o ".tar"
BlobPath(digest) == "images/blobs/sha256/" \o digest

\* The published packages: which components are required, the images of each,
\* whether the signature and sboms.tar are there, whether component c has a
\* tar. The files of a package differ in their bytes, so every layer has a
\* digest of its own.
Packages ==
    [required : SUBSET ComponentNames,
     images : [ComponentNames -> SUBSET ImageNames],
     signed : BOOLEAN, sboms : BOOLEAN, cHasTar : BOOLEAN]

AllImages(p) == UNION {p.images[n] : n \in ComponentNames}

TarDigest(name) == "tar-" \o name

ImageBlobDigests(image) ==
    LET m == ImageManifest(image) IN
    {m.digest, m.config} \cup {m.layers[i] : i \in 1..Len(m.layers)}

\* root.Layers: the layers of the package's root manifest.
RootLayers(p) ==
    {Descriptor(ZarfYAML, "yaml"), Descriptor(ZarfChecksumsTxt, "sums")}
    \cup (IF p.signed THEN {Descriptor(ZarfYAMLSignature, "sig")} ELSE {})
    \cup {Descriptor(ComponentTarPath(n), TarDigest(n)) :
            n \in {x \in ComponentNames : x # "c" \/ p.cHasTar}}
    \cup (IF p.sboms THEN {Descriptor(ZarfSBOMTar, "sbom")} ELSE {})
    \cup (IF AllImages(p) # {}
          THEN {Descriptor(IndexPath, "index"), Descriptor(OCILayoutPath, "layout")}
               \cup {Descriptor(BlobPath(d), d) :
                       d \in UNION {ImageBlobDigests(i) : i \in AllImages(p)}}
          ELSE {})

\* root.Locate(path): the layer titled path, or the empty descriptor.
Locate(p, path) ==
    IF \E l \in RootLayers(p) : l.title = path
    THEN CHOOSE l \in RootLayers(p) : l.title = path
    ELSE EmptyDescriptor

RECURSIVE Flatten(_)
Flatten(seqs) ==
    IF seqs = <<>> THEN <<>> ELSE Head(seqs) \o Flatten(Tail(seqs))

\* The result of a layer lookup: (layers, err)
Layers(layers) == [layers |-> layers, err |-> FALSE]
LayersError == [layers |-> <<>>, err |-> TRUE]

\* Mutant: the required flag is ignored.
ComponentSelectedIfRequested(p, requested, name) == name \in requested

\* Line 78: the components whose tar and images are taken.
ComponentSelected(p, requested, name) ==
    name \in requested \/ name \in p.required

\* LayersFromRequestedComponents
LayersFromRequestedComponents(p, requested) ==
    IF \E name \in requested : name \notin ComponentNames
    THEN LayersError
    ELSE
      LET selected == SelectSeq(ComponentOrder,
                                LAMBDA n : ComponentSelected(p, requested, n))
          images == UNION {p.images[selected[i]] : i \in 1..Len(selected)}
          tars == [i \in 1..Len(selected) |->
                     Locate(p, ComponentTarPath(selected[i]))]
          sbomsDescriptor == Locate(p, ZarfSBOMTar)
          sboms == IF ~isEmptyDescriptor(sbomsDescriptor)
                   THEN <<sbomsDescriptor>> ELSE <<>>
          wanted == SelectSeq(ImageOrder, LAMBDA i : i \in images)
          blobsOf(i) ==
              LET m == ImageManifest(i) IN
              <<Locate(p, BlobPath(m.digest)), Locate(p, BlobPath(m.config))>>
              \o [k \in 1..Len(m.layers) |-> Locate(p, BlobPath(m.layers[k]))]
          imageLayers ==
              IF images # {}
              THEN <<Locate(p, IndexPath), Locate(p, OCILayoutPath)>>
                   \o Flatten([k \in 1..Len(wanted) |-> blobsOf(wanted[k])])
              ELSE <<>>
      IN Layers(tars \o sboms \o imageLayers)

\* LayersFromPaths
LayersFromPaths(p, requestedPaths) ==
    IF \E i \in 1..Len(requestedPaths) : isEmptyDescriptor(Locate(p, requestedPaths[i]))
    THEN LayersError
    ELSE Layers([i \in 1..Len(requestedPaths) |-> Locate(p, requestedPaths[i])])

Range(seq) == {seq[i] : i \in 1..Len(seq)}

\* Mutant: nothing is added to the layers the caller listed.
WithoutAlwaysPull(p, layers, paths) == layers

\* PullPackage, lines 143-154: the mandatory paths the caller did not list.
RECURSIVE WithAlwaysPull(_, _, _)
WithAlwaysPull(p, layers, paths) ==
    IF paths = <<>> THEN layers
    ELSE LET path == Head(paths)
             exists == \E l \in Range(layers) : l.title = path
         IN WithAlwaysPull(p,
                           IF exists THEN layers ELSE Append(layers, Locate(p, path)),
                           Tail(paths))

\* helpers.Unique
RECURSIVE Unique(_)
Unique(seq) ==
    IF seq = <<>> THEN <<>>
    ELSE LET front == Unique(SubSeq(seq, 1, Len(seq) - 1))
             last == seq[Len(seq)]
         IN IF last \in Range(front) THEN front ELSE Append(front, last)

\* PullPackage, lines 172-182: partialPaths and shas of a partial pull.
PartialPaths(layers) ==
    Unique(SelectSeq([i \in 1..Len(layers) |-> layers[i].title],
                     LAMBDA t : t # ""))

Shas(layers) == {l.digest : l \in {x \in Range(layers) : x.digest # ""}}

\* The FindSuccessors filter of lines 184-196.
PassesFilter(shas, node) == node.digest \in shas

\* PullPackage: what it returns and the layers oras.Copy is let to copy.
PullPackage(p, layers, copyFails) ==
    LET isPartialPull == Len(layers) > 0
        all == IF isPartialPull THEN WithAlwaysPull(p, layers, PackageAlwaysPull)
               ELSE layers
    IN [returned |-> TRUE,
        isPartialPull |-> isPartialPull,
        partialPaths |-> IF isPartialPull THEN PartialPaths(all) ELSE <<>>,
        shas |-> IF isPartialPull THEN Shas(all) ELSE {},
        copied |-> IF isPartialPull
                   THEN {l \in RootLayers(p) : PassesFilter(Shas(all), l)}
                   ELSE RootLayers(p),
        err |-> copyFails]

\* The paths a caller hands to LayersFromPaths.
RequestablePaths ==
    {<<ZarfYAML>>, <<ZarfSBOMTar>>, <<ZarfYAML, ZarfChecksumsTxt>>,
     <<ZarfChecksumsTxt, ComponentTarPath("b")>>,
     <<ZarfYAML, ZarfChecksumsTxt, ZarfYAMLSignature>>,
     <<ZarfYAML, ZarfChecksumsTxt, ZarfYAMLSignature, ZarfSBOMTar>>}

Pull_Publish ==
    /\ pullPc = "idle"
    /\ published = [name |-> "none"]
    /\ \E p \in Packages :
         /\ p.images["a"] \subseteq {"i1"}
         /\ p.images["c"] \subseteq {"i2"}
         /\ published' = p
    /\ UNCHANGED <<pullPc, requestedComponents, layersToPull, pulled>>
    /\ UNCHANGED nonPullVars

\* OCISource.LoadPackage with optional components: the layers of the components.
Pull_LayersFromRequestedComponents ==
    /\ pullPc = "idle"
    /\ published # [name |-> "none"]
    /\ \E requested \in SUBSET (ComponentNames \cup {"x"}) :
         /\ requested # {}
         /\ requestedComponents' = requested
         /\ layersToPull' = LayersFromRequestedComponents(published, requested)
    /\ pullPc' = "layers"
    /\ UNCHANGED <<published, pulled>>
    /\ UNCHANGED nonPullVars

\* A caller that names paths.
Pull_LayersFromPaths ==
    /\ pullPc = "idle"
    /\ published # [name |-> "none"]
    /\ \E paths \in RequestablePaths :
         layersToPull' = LayersFromPaths(published, paths)
    /\ pullPc' = "layers"
    /\ UNCHANGED <<published, requestedComponents, pulled>>
    /\ UNCHANGED nonPullVars

\* A caller that names nothing: the whole package.
Pull_NoLayers ==
    /\ pullPc = "idle"
    /\ published # [name |-> "none"]
    /\ layersToPull' = Layers(<<>>)
    /\ pullPc' = "layers"
    /\ UNCHANGED <<published, requestedComponents, pulled>>
    /\ UNCHANGED nonPullVars

\* The caller returns the error of the layer lookup.
Pull_LayersFailed ==
    /\ pullPc = "layers"
    /\ layersToPull.err
    /\ pullPc' = "idle"
    /\ requestedComponents' = {}
    /\ layersToPull' = Layers(<<>>)
    /\ UNCHANGED <<published, pulled>>
    /\ UNCHANGED nonPullVars

Pull_PullPackage ==
    /\ pullPc = "layers"
    /\ ~layersToPull.err
    /\ \E copyFails \in BOOLEAN :
         pulled' = PullPackage(published, layersToPull.layers, copyFails)
    /\ pullPc' = "pulled"
    /\ UNCHANGED <<published, requestedComponents, layersToPull>>
    /\ UNCHANGED nonPullVars

Pull_Return ==
    /\ pullPc = "pulled"
    /\ pullPc' = "idle"
    /\ requestedComponents' = {}
    /\ layersToPull' = Layers(<<>>)
    /\ pulled' = [returned |-> FALSE]
    /\ UNCHANGED published
    /\ UNCHANGED nonPullVars

InitPull ==
    /\ PullIdle
    /\ NonPullIdle

NextPull ==
    \/ Pull_Publish
    \/ Pull_LayersFromRequestedComponents
    \/ Pull_LayersFromPaths
    \/ Pull_NoLayers
    \/ Pull_LayersFailed
    \/ Pull_PullPackage
    \/ Pull_Return

SpecPull == InitPull /\ [][NextPull]_vars

----------------------------------------------------------------------------
(* OCI transport: Copy from one registry to another                         *)

MaxLayers == 2
MaxCopyRuns == 2

\* srcRoot.Layers, in manifest order; the blob 0 is srcRoot.Config.
ConfigBlob == 0
SrcRootLayers == [i \in 1..MaxLayers |-> i]
LayerSize(layer) == layer + 1

\* Lines 41-50: the layers include lets through (all of them when include is
\* nil), then the config.
SelectLayers(includeNil, included) ==
    SelectSeq(SrcRootLayers, LAMBDA l : includeNil \/ l \in included)
    \o <<ConfigBlob>>

\* A call on a registry, with its outcome, and a call on the tracker, with
\* the byte count it is given (Update after a push is given Current()).
Call(op, layer, result) ==
    [op |-> op, layer |-> layer, result |-> result, size |-> 0]
TrackerCall(op, layer, result, size) ==
    [op |-> op, layer |-> layer, result |-> result, size |-> size]

\* The blobs a run's calls have put into the destination.
Pushed(log) ==
    {log[i].layer : i \in {j \in 1..Len(log) :
                               log[j].op = "Push" /\ log[j].result = "ok"}}

\* Where the loop goes after the iteration of copyLayers[idx].
AfterLayer(idx) == IF idx < Len(copyLayers) THEN "exists" ELSE "done"

\* A loop that goes on with the next layer after a failure.
AfterFailureContinue(idx) == AfterLayer(idx)

\* Lines 77-79, 97-99, 139-141: where Copy goes when a registry call fails.
AfterFailure(idx) == "returned"

\* A loop that skips no layer.
NeverSkip(exists) == FALSE

\* Line 80: whether the iteration stops after the existence check.
SkipLayer(exists) == exists

\* A return that leaves the tracker unfinished.
ReturnedUnfinished(tracked, pc, log) == log

\* Line 60: defer progressTracker.Finish, which runs when Copy returns.
Returned(tracked, pc, log) ==
    IF pc = "returned" /\ tracked
    THEN Append(log, TrackerCall("Finish", ConfigBlob, "copied", 0))
    ELSE log

\* Lines 36-61: FetchRoot, the selection of the layers, progressTracker.Start.
Copy_Start ==
    /\ copyPc = "idle"
    /\ copyRuns < MaxCopyRuns
    /\ copyRuns' = copyRuns + 1
    /\ \E fetchRootFails \in BOOLEAN, tracked \in BOOLEAN, includeNil \in BOOLEAN,
          included \in SUBSET (1..MaxLayers) :
         /\ (includeNil => included = {})
         /\ copyInclude' = [isNil |-> includeNil, layers |-> included]
         /\ copyTracked' = tracked
         /\ IF fetchRootFails
            THEN /\ copyPc' = "returned"
                 /\ copyErr' = "ErrFetchRoot"
                 /\ copyLayers' = <<>>
                 /\ copyIdx' = 0
                 /\ copyLog' = <<>>
            ELSE /\ copyPc' = "exists"
                 /\ copyErr' = "none"
                 /\ copyLayers' = SelectLayers(includeNil, included)
                 /\ copyIdx' = 1
                 /\ copyLog' = IF tracked
                               THEN <<TrackerCall("Start", ConfigBlob, "total", 0)>>
                               ELSE <<>>
    /\ UNCHANGED <<dstBlobs, copyPrev>>
    /\ UNCHANGED nonCopyVars

\* Lines 71-87: sem.Acquire (which fails when ctx is done), dst.repo.Exists,
\* and the skip of a layer that is there.
Copy_Exists ==
    /\ copyPc = "exists"
    /\ LET layer == copyLayers[copyIdx] IN
       \E ctxDone \in BOOLEAN, fails \in BOOLEAN :
         IF ctxDone
         THEN /\ ~fails
              /\ copyPc' = "returned"
              /\ copyErr' = "ErrContext"
              /\ copyLog' = Returned(copyTracked, "returned", copyLog)
              /\ UNCHANGED copyIdx
         ELSE IF fails
         THEN /\ copyLog' = Returned(copyTracked, AfterFailure(copyIdx),
                                      Append(copyLog, Call("Exists", layer, "error")))
              /\ copyPc' = AfterFailure(copyIdx)
              /\ copyErr' = IF AfterFailure(copyIdx) = "returned"
                            THEN "ErrExists" ELSE copyErr
              /\ copyIdx' = IF AfterFailure(copyIdx) = "returned"
                            THEN copyIdx ELSE copyIdx + 1
         ELSE IF SkipLayer(layer \in dstBlobs)
              THEN /\ copyLog' =
                        Append(copyLog, Call("Exists", layer, IF layer \in dstBlobs
                                                     THEN "true" ELSE "false"))
                        \o (IF copyTracked
                            THEN <<TrackerCall("Update", layer, "size", LayerSize(layer))>>
                            ELSE <<>>)
                   /\ copyPc' = AfterLayer(copyIdx)
                   /\ copyIdx' = copyIdx + 1
                   /\ UNCHANGED copyErr
              ELSE /\ copyLog' =
                        Append(copyLog, Call("Exists", layer, IF layer \in dstBlobs
                                                     THEN "true" ELSE "false"))
                   /\ copyPc' = "fetch"
                   /\ UNCHANGED <<copyIdx, copyErr>>
    /\ UNCHANGED <<dstBlobs, copyInclude, copyLayers, copyTracked, copyRuns, copyPrev>>
    /\ UNCHANGED nonCopyVars

\* Lines 95-99: src.repo.Fetch
Copy_Fetch ==
    /\ copyPc = "fetch"
    /\ LET layer == copyLayers[copyIdx] IN
       \E fails \in BOOLEAN :
         IF fails
         THEN /\ copyLog' = Returned(copyTracked, AfterFailure(copyIdx),
                                      Append(copyLog, Call("Fetch", layer, "error")))
              /\ copyPc' = AfterFailure(copyIdx)
              /\ copyErr' = IF AfterFailure(copyIdx) = "returned"
                            THEN "ErrFetch" ELSE copyErr
              /\ copyIdx' = IF AfterFailure(copyIdx) = "returned"
                            THEN copyIdx ELSE copyIdx + 1
         ELSE /\ copyLog' = Append(copyLog, Call("Fetch", layer, "ok"))
              /\ copyPc' = "push"
              /\ UNCHANGED <<copyIdx, copyErr>>
    /\ UNCHANGED <<dstBlobs, copyInclude, copyLayers, copyTracked, copyRuns, copyPrev>>
    /\ UNCHANGED nonCopyVars

\* Lines 101-146: dst.repo.Push of the fetched stream, eg.Wait, and the
\* tracker's Update.
Copy_Push ==
    /\ copyPc = "push"
    /\ LET layer == copyLayers[copyIdx] IN
       \E fails \in BOOLEAN, writeFails \in BOOLEAN :
         /\ (writeFails => copyTracked)
         /\ dstBlobs' = IF fails THEN dstBlobs ELSE dstBlobs \cup {layer}
         /\ IF fails \/ writeFails
            THEN /\ copyLog' =
                      Returned(copyTracked, AfterFailure(copyIdx),
                          Append(copyLog,
                                 Call("Push", layer, IF fails THEN "error" ELSE "ok"))
                          \o (IF writeFails
                              THEN <<TrackerCall("Write", layer, "error", 0)>>
                              ELSE <<>>))
                 /\ copyPc' = AfterFailure(copyIdx)
                 /\ copyErr' = IF AfterFailure(copyIdx) = "returned"
                               THEN (IF fails THEN "ErrPush" ELSE "ErrProgress")
                               ELSE copyErr
                 /\ copyIdx' = IF AfterFailure(copyIdx) = "returned"
                               THEN copyIdx ELSE copyIdx + 1
            ELSE /\ copyLog' =
                      Append(copyLog, Call("Push", layer, "ok"))
                      \o (IF copyTracked
                          THEN <<TrackerCall("Write", layer, "size", LayerSize(layer)),
                                 TrackerCall("Update", layer, "current", 0)>>
                          ELSE <<>>)
                 /\ copyPc' = AfterLayer(copyIdx)
                 /\ copyIdx' = copyIdx + 1
                 /\ UNCHANGED copyErr
    /\ UNCHANGED <<copyInclude, copyLayers, copyTracked, copyRuns, copyPrev>>
    /\ UNCHANGED nonCopyVars

\* Lines 148-151: the loop is over.
Copy_Done ==
    /\ copyPc = "done"
    /\ copyPc' = "returned"
    /\ copyErr' = "nil"
    /\ copyLog' = Returned(copyTracked, "returned", copyLog)
    /\ UNCHANGED <<dstBlobs, copyInclude, copyLayers, copyIdx, copyTracked,
                   copyRuns, copyPrev>>
    /\ UNCHANGED nonCopyVars

\* Copy has returned (the deferred progressTracker.Finish has run); the
\* caller may run it again.
Copy_Return ==
    /\ copyPc = "returned"
    /\ copyPc' = "idle"
    /\ copyInclude' = [isNil |-> TRUE, layers |-> {}]
    /\ copyLayers' = <<>>
    /\ copyIdx' = 0
    /\ copyTracked' = FALSE
    /\ copyLog' = <<>>
    /\ copyErr' = "none"
    /\ copyPrev' = [err |-> copyErr,
                    pushed |-> copyPrev.pushed \cup Pushed(copyLog)]
    /\ UNCHANGED <<dstBlobs, copyRuns>>
    /\ UNCHANGED nonCopyVars

\* The destination holds some of the blobs already, or none.
InitCopy ==
    /\ dstBlobs \in SUBSET (0..MaxLayers)
    /\ copyPc = "idle"
    /\ copyInclude = [isNil |-> TRUE, layers |-> {}]
    /\ copyLayers = <<>>
    /\ copyIdx = 0
    /\ copyTracked = FALSE
    /\ copyLog = <<>>
    /\ copyErr = "none"
    /\ copyRuns = 0
    /\ copyPrev = [err |-> "none", pushed |-> {}]
    /\ NonCopyIdle

NextCopy ==
    \/ Copy_Start
    \/ Copy_Exists
    \/ Copy_Fetch
    \/ Copy_Push
    \/ Copy_Done
    \/ Copy_Return

SpecCopy == InitCopy /\ [][NextCopy]_vars

----------------------------------------------------------------------------
(* Package sources: SplitTarballSource.Collect                              *)

MaxParts == 2
MaxCollects == 2
HashMod == 3

\* The names of the directory in lexical order: the tarball, its header part
\* and its data parts.
Tarball == "pkg.tar"
Part000 == "pkg.tar.part000"
Names ==
    <<Tarball, Part000, "pkg.tar.part001", "pkg.tar.part002", "pkg.tar.part003",
      "pkg.tar.part004">>
PartNames == {Names[i] : i \in 2..(MaxParts + 2)}
AllPartNames == {Names[i] : i \in 2..Len(Names)}
NameRank(name) == CHOOSE i \in 1..Len(Names) : Names[i] = name

\* A file is a JSON header (types.ZarfSplitPackageData) or bytes that are no
\* JSON; it can be read or not.
NoHeader == [count |-> 0 - 1, sha256Sum |-> NoSha]
File(header, bytes, readable) ==
    [header |-> header, bytes |-> bytes, readable |-> readable]
EmptyFile == File(NoHeader, <<>>, TRUE)
PartContents == {<<>>, <<0>>, <<1>>}

\* GetSHA256OfFile, as a hash of few values.
RECURSIVE HashFrom(_, _)
HashFrom(h, bytes) ==
    IF bytes = <<>> THEN h
    ELSE HashFrom((h * 2 + Head(bytes) + 1) % HashMod, Tail(bytes))
Sha256(bytes) == <<HashFrom(1, bytes)>>
Shas256 == {<<h>> : h \in 0..(HashMod - 1)}

\* utils.SHAsMatch(path, expected)
SHAsMatch(file, expected) == Sha256(file.bytes) = expected

\* Line 159: strings.Replace(s.PackageSource, ".part000", ".part*", 1)
Pattern(source) == IF source = Part000 THEN "pkg.tar.part*" ELSE source

\* Lines 231, 248: strings.Replace(s.PackageSource, ".part000", "", 1)
DstTarballOf(source) == IF source = Part000 THEN Tarball ELSE source

\* Line 160: filepath.Glob
Glob(pattern) ==
    IF pattern = "pkg.tar.part*"
    THEN {n \in DOMAIN files : n \in AllPartNames}
    ELSE {n \in DOMAIN files : n = pattern}

\* Line 166: sort.Strings
RECURSIVE SortStrings(_)
SortStrings(names) ==
    IF names = {} THEN <<>>
    ELSE LET first == CHOOSE n \in names :
                          \A o \in names : NameRank(n) <= NameRank(o)
         IN  <<first>> \o SortStrings(names \ {first})

\* Lines 189-192, with the check left out.
CountAlwaysMatches(found, expected) == TRUE

\* Lines 189-192: count != pkgData.Count
CountMatches(found, expected) == found = expected

\* Line 194: len(s.Shasum) > 0 && pkgData.Sha256Sum != s.Shasum
ShasumMismatch(option, sha256Sum) == option # NoSha /\ sha256Sum # option

\* Lines 214-221: the parts are removed when the check has passed.
AfterIntegrityCheck(matches) == IF matches THEN "remove" ELSE "returned"

WithFile(fs, name, file) ==
    [n \in DOMAIN fs \cup {name} |-> IF n = name THEN file ELSE fs[n]]
Without(fs, names) == [n \in DOMAIN fs \ names |-> fs[n]]

CollectLocals == <<PackageSource, Shasum, dstTarball, fileList, filesAtCall,
                   removeFailed, collects>>

\* Lines 231-233: LoadPackage calls Collect; lines 159-166.
Collect_Call ==
    /\ collectPc = "idle"
    /\ collects < MaxCollects
    /\ collects' = collects + 1
    /\ collectPc' = "create"
    /\ dstTarball' = DstTarballOf(PackageSource)
    /\ fileList' = SortStrings(Glob(Pattern(PackageSource)))
    /\ fileIdx' = 0
    /\ pkgData' = [count |-> 0, sha256Sum |-> NoSha]
    /\ collectErr' = "none"
    /\ filesAtCall' = files
    /\ removeFailed' = {}
    /\ UNCHANGED <<files, PackageSource, Shasum>>
    /\ UNCHANGED nonCollectVars

\* Lines 169-173: os.Create truncates the destination.
Collect_Create ==
    /\ collectPc = "create"
    /\ \E fails \in BOOLEAN :
         IF fails
         THEN /\ collectPc' = "returned"
              /\ collectErr' = "ErrCreate"
              /\ UNCHANGED <<files, fileIdx>>
         ELSE /\ files' = WithFile(files, dstTarball, EmptyFile)
              /\ fileIdx' = 1
              /\ collectPc' = IF fileList = <<>> THEN "shasmatch" ELSE "header"
              /\ UNCHANGED collectErr
    /\ UNCHANGED pkgData
    /\ UNCHANGED CollectLocals
    /\ UNCHANGED nonCollectVars

\* Lines 178-199: the first file is the header.
Collect_Header ==
    /\ collectPc = "header"
    /\ LET file == files[fileList[1]]
           count == Len(fileList) - 1
           err == IF ~file.readable THEN "ErrReadFile"
                  ELSE IF file.header = NoHeader THEN "ErrUnmarshal"
                  ELSE IF ~CountMatches(count, file.header.count)
                       THEN "ErrMissingParts"
                  ELSE IF ShasumMismatch(Shasum, file.header.sha256Sum)
                       THEN "ErrShasumOption"
                  ELSE "none"
       IN  /\ collectErr' = err
           /\ pkgData' = IF file.readable /\ file.header # NoHeader
                         THEN file.header ELSE pkgData
           /\ collectPc' = IF err # "none" THEN "returned"
                           ELSE IF Len(fileList) >= 2 THEN "append"
                           ELSE "shasmatch"
           /\ fileIdx' = 2
    /\ UNCHANGED files
    /\ UNCHANGED CollectLocals
    /\ UNCHANGED nonCollectVars

\* Lines 201-211: a data part is appended to the destination.
Collect_Append ==
    /\ collectPc = "append"
    /\ LET file == files[fileList[fileIdx]] IN
       \E copyFails \in BOOLEAN :
         IF ~file.readable
         THEN /\ ~copyFails
              /\ collectPc' = "returned"
              /\ collectErr' = "ErrOpen"
              /\ UNCHANGED <<files, fileIdx>>
         ELSE IF copyFails
         THEN /\ collectPc' = "returned"
              /\ collectErr' = "ErrCopy"
              /\ UNCHANGED <<files, fileIdx>>
         ELSE /\ files' = WithFile(files, dstTarball,
                               File(NoHeader,
                                    files[dstTarball].bytes \o file.bytes, TRUE))
              /\ fileIdx' = fileIdx + 1
              /\ collectPc' = IF fileIdx < Len(fileList)
                              THEN "append" ELSE "shasmatch"
              /\ UNCHANGED collectErr
    /\ UNCHANGED pkgData
    /\ UNCHANGED CollectLocals
    /\ UNCHANGED nonCollectVars

\* Lines 214-216
Collect_SHAsMatch ==
    /\ collectPc = "shasmatch"
    /\ LET matches == SHAsMatch(files[dstTarball], pkgData.sha256Sum) IN
         /\ collectPc' = AfterIntegrityCheck(matches)
         /\ collectErr' = IF matches THEN "none" ELSE "ErrIntegrity"
    /\ UNCHANGED <<files, fileIdx, pkgData>>
    /\ UNCHANGED CollectLocals
    /\ UNCHANGED nonCollectVars

\* Lines 219-226: os.Remove of every file of fileList; its error is dropped.
\* (The data parts are still open here, their Close being deferred at line
\* 206 to the return; where an open file cannot be removed, os.Remove fails.)
Collect_Remove ==
    /\ collectPc = "remove"
    /\ \E failed \in SUBSET {fileList[i] : i \in 1..Len(fileList)} :
         /\ files' = Without(files, {fileList[i] : i \in 1..Len(fileList)} \ failed)
         /\ removeFailed' = failed
    /\ collectPc' = "returned"
    /\ collectErr' = IF collectErr = "none" THEN "nil" ELSE collectErr
    /\ UNCHANGED <<PackageSource, Shasum, dstTarball, fileList, fileIdx, pkgData,
                   filesAtCall, collects>>
    /\ UNCHANGED nonCollectVars

\* Lines 233-238: back in LoadPackage, which on success takes the
\* reassembled tarball as the package source.
Collect_Return ==
    /\ collectPc = "returned"
    /\ collectPc' = "idle"
    /\ PackageSource' = IF collectErr = "nil" THEN dstTarball ELSE PackageSource
    /\ dstTarball' = ""
    /\ fileList' = <<>>
    /\ fileIdx' = 0
    /\ pkgData' = [count |-> 0, sha256Sum |-> NoSha]
    /\ collectErr' = "none"
    /\ filesAtCall' = NoFiles
    /\ removeFailed' = {}
    /\ UNCHANGED <<files, Shasum, collects>>
    /\ UNCHANGED nonCollectVars

\* The directory holds a tarball or not, a first part that is a header or is
\* not JSON, and some of the data parts.
Headers == [count : 0..MaxParts, sha256Sum : Shas256]
FirstParts ==
    {File(h, <<>>, r) : h \in Headers, r \in BOOLEAN}
    \cup {File(NoHeader, c, r) : c \in PartContents, r \in BOOLEAN}
DataParts == {File(NoHeader, c, r) : c \in PartContents, r \in BOOLEAN}
Directory(present, first, data) ==
    [n \in present |-> IF n = Tarball THEN EmptyFile
                       ELSE IF n = Part000 THEN first
                       ELSE data[n]]

InitCollect ==
    /\ \E present \in SUBSET (PartNames \cup {Tarball}), first \in FirstParts,
          data \in [PartNames \ {Part000} -> DataParts] :
         files = Directory(present, first, data)
    /\ PackageSource = Part000
    /\ Shasum \in Shas256 \cup {NoSha}
    /\ collectPc = "idle"
    /\ dstTarball = ""
    /\ fileList = <<>>
    /\ fileIdx = 0
    /\ pkgData = [count |-> 0, sha256Sum |-> NoSha]
    /\ collectErr = "none"
    /\ filesAtCall = NoFiles
    /\ removeFailed = {}
    /\ collects = 0
    /\ NonCollectIdle

NextCollect ==
    \/ Collect_Call
    \/ Collect_Create
    \/ Collect_Header
    \/ Collect_Append
    \/ Collect_SHAsMatch
    \/ Collect_Remove
    \/ Collect_Return

SpecCollect == InitCollect /\ [][NextCollect]_vars

----------------------------------------------------------------------------
(* utils.SplitFile, and the parts written from its result                   *)

MaxFileLen == 3
MaxChunkSize == 2

RECURSIVE BytesUpTo(_)
BytesUpTo(n) ==
    IF n = 0 THEN {<<>>}
    ELSE BytesUpTo(n - 1)
         \cup {Append(b, x) : b \in {c \in BytesUpTo(n - 1) : Len(c) = n - 1},
                              x \in {0, 1}}

\* A loop that loses the byte after each chunk.
RestDropsOne(bytes, n) == SubSeq(bytes, n + 2, Len(bytes))

\* Line 319: file[chunkSizeBytes:]
Rest(bytes, n) == SubSeq(bytes, n + 1, Len(bytes))

\* Line 318: file[0:chunkSizeBytes]
Chunk(bytes, n) == SubSeq(bytes, 1, n)

\* Lines 300-305: os.ReadFile and sha256.Sum256
Split_ReadFile ==
    /\ splitPc = "call"
    /\ \E fails \in BOOLEAN :
         IF fails
         THEN /\ splitPc' = "failed"
              /\ UNCHANGED <<fileBytes, sha256sum>>
         ELSE /\ splitPc' = "loop"
              /\ fileBytes' = original
              /\ sha256sum' = Sha256(original)
    /\ UNCHANGED <<original, chunks, chunkSizeBytes, chunkSizeAtCall>>
    /\ UNCHANGED <<collectVars, nonSplitVars>>

\* Lines 308-320: one turn of the loop.
Split_Chunk ==
    /\ splitPc = "loop"
    /\ Len(fileBytes) # 0
    /\ LET size == IF Len(fileBytes) < chunkSizeBytes
                   THEN Len(fileBytes) ELSE chunkSizeBytes
       IN  /\ chunkSizeBytes' = size
           /\ chunks' = Append(chunks, Chunk(fileBytes, size))
           /\ fileBytes' = Rest(fileBytes, size)
    /\ UNCHANGED <<splitPc, original, sha256sum, chunkSizeAtCall>>
    /\ UNCHANGED <<collectVars, nonSplitVars>>

\* Lines 309-311, 322
Split_Return ==
    /\ splitPc = "loop"
    /\ Len(fileBytes) = 0
    /\ splitPc' = "returned"
    /\ UNCHANGED <<original, fileBytes, chunks, sha256sum, chunkSizeBytes,
                   chunkSizeAtCall>>
    /\ UNCHANGED <<collectVars, nonSplitVars>>

\* The caller writes the header part, with the count of the chunks, the
\* sha256sum and the size of the file, and one data part per chunk, named in
\* the order of the chunks.
Split_WriteParts ==
    /\ splitPc = "returned"
    /\ collectPc = "idle"
    /\ Len(chunks) <= Len(Names) - 2
    /\ splitPc' = "written"
    /\ files' = [n \in {Names[i] : i \in 2..(Len(chunks) + 2)} |->
                    IF n = Part000
                    THEN File([count |-> Len(chunks), sha256Sum |-> sha256sum,
                               size |-> Len(original)],
                              <<>>, TRUE)
                    ELSE File(NoHeader, chunks[NameRank(n) - 2], TRUE)]
    /\ PackageSource' = Part000
    /\ Shasum' \in {NoSha, sha256sum}
    /\ collects' = 0
    /\ UNCHANGED <<collectPc, dstTarball, fileList, fileIdx, pkgData, collectErr,
                   filesAtCall, removeFailed>>
    /\ UNCHANGED <<original, fileBytes, chunks, sha256sum, chunkSizeBytes,
                   chunkSizeAtCall>>
    /\ UNCHANGED nonSplitVars

InitSplit ==
    /\ splitPc = "call"
    /\ original \in BytesUpTo(MaxFileLen)
    /\ fileBytes = <<>>
    /\ chunks = <<>>
    /\ sha256sum = NoSha
    /\ chunkSizeBytes \in 1..MaxChunkSize
    /\ chunkSizeAtCall = chunkSizeBytes
    /\ CollectIdle
    /\ NonSplitIdle

NextSplit ==
    \/ Split_ReadFile
    \/ Split_Chunk
    \/ Split_Return
    \/ Split_WriteParts
    \/ (splitPc = "written" /\ NextCollect)

SpecSplit == InitSplit /\ [][NextSplit]_vars

\* SplitFile on archives of whole MiB with a part size of whole MiB: every
\* cut falls on a MiB boundary, so one element of the file stands for one
\* MiB of it.
ArchiveMiB == 10
MaxSizeMiB == 3
MiB == 1024 * 1024

\* Archives whose blocks differ from their neighbours.
Archives(n) == {[i \in 1..n |-> (i + k) % 4] : k \in 0..1}

InitSplitArchive ==
    /\ splitPc = "call"
    /\ \E n \in 0..ArchiveMiB : original \in Archives(n)
    /\ fileBytes = <<>>
    /\ chunks = <<>>
    /\ sha256sum = NoSha
    /\ chunkSizeBytes \in 1..MaxSizeMiB
    /\ chunkSizeAtCall = chunkSizeBytes
    /\ CollectIdle
    /\ NonSplitIdle

SpecSplitArchive == InitSplitArchive /\ [][NextSplit]_vars

\* RecordPackageDeployment called on its own, one deployment after the other,
\* with the record removed in between or not.
NextRecordDeployment ==
    \/ RPD_Get
    \/ RPD_Create
    \/ RPD_Update
    \/ RPD_Return
    \/ DeleteDeployedPackage

SpecRecordDeployment == InitRecord /\ [][NextRecordDeployment]_vars

----------------------------------------------------------------------------
(* bundler: Bundler.Deploy                                                  *)

MaxPackages == 2

\* A package of the bundle: whether its Ref holds "@sha256:", whether it has
\* a PublicKey.
BundlePackages == [hasDigest : BOOLEAN, hasPublicKey : BOOLEAN]

BundleCall(op, pkgNo, ok) == [op |-> op, pkg |-> pkgNo, ok |-> ok]

\* Lines 475, 519: the loop goes to the package at idx, or Deploy is over.
LoopAt(idx, packages) == IF idx <= Len(packages) THEN "MakeTempDir" ELSE "done"

\* A Deploy that reads the metadata without validating its signature.
StepAfterSkippingValidation(step, idx, packages) ==
    CASE step = "NewProvider" -> "LoadBundleMetadata"
      [] step = "LoadBundleMetadata" -> "ReadYaml"
      [] step = "ValidateBundleSignature" -> "ReadYaml"
      [] step = "ReadYaml" -> LoopAt(1, packages)
      [] step = "MakeTempDir" -> "LoadPackage"
      [] step = "LoadPackage" ->
            IF packages[idx].hasPublicKey THEN "WriteFile" ELSE "New"
      [] step = "WriteFile" -> "New"
      [] step = "New" -> "SetTempDirectory"
      [] step = "SetTempDirectory" -> "Deploy"
      [] step = "Deploy" -> LoopAt(idx + 1, packages)

\* Lines 449-518: the step that follows a step that returned no error.
BundleStepAfter(step, idx, packages) ==
    CASE step = "NewProvider" -> "LoadBundleMetadata"
      [] step = "LoadBundleMetadata" -> "ValidateBundleSignature"
      [] step = "ValidateBundleSignature" -> "ReadYaml"
      [] step = "ReadYaml" -> LoopAt(1, packages)
      [] step = "MakeTempDir" -> "LoadPackage"
      [] step = "LoadPackage" ->
            IF packages[idx].hasPublicKey THEN "WriteFile" ELSE "New"
      [] step = "WriteFile" -> "New"
      [] step = "New" -> "SetTempDirectory"
      [] step = "SetTempDirectory" -> "Deploy"
      [] step = "Deploy" -> LoopAt(idx + 1, packages)

BundleError(step) ==
    CASE step = "NewProvider" -> "ErrNewProvider"
      [] step = "LoadBundleMetadata" -> "ErrLoadBundleMetadata"
      [] step = "ValidateBundleSignature" -> "ErrValidateBundleSignature"
      [] step = "ReadYaml" -> "ErrReadYaml"
      [] step = "MakeTempDir" -> "ErrMakeTempDir"
      [] step = "LoadPackage" -> "ErrLoadPackage"
      [] step = "WriteFile" -> "ErrWriteFile"
      [] step = "New" -> "ErrNew"
      [] step = "SetTempDirectory" -> "ErrSetTempDirectory"
      [] step = "Deploy" -> "ErrDeploy"

\* One call of Deploy: it fails and Deploy returns its error, or Deploy goes on.
BundleStep(step, packages) ==
    /\ bundlePc = step
    /\ \E fails \in BOOLEAN :
         /\ bundleLog' = Append(bundleLog, BundleCall(step, bundleIdx, ~fails))
         /\ IF fails
            THEN /\ bundlePc' = "returned"
                 /\ bundleErr' = BundleError(step)
            ELSE /\ bundlePc' = BundleStepAfter(step, bundleIdx, packages)
                 /\ UNCHANGED bundleErr
    /\ UNCHANGED bundleYaml
    /\ UNCHANGED nonBundleVars

\* Lines 449-452
Bundle_NewProvider ==
    /\ BundleStep("NewProvider", bundle)
    /\ UNCHANGED <<bundle, bundleIdx>>

\* Lines 455-458
Bundle_LoadBundleMetadata ==
    /\ BundleStep("LoadBundleMetadata", bundle)
    /\ UNCHANGED <<bundle, bundleIdx>>

\* Lines 461-463
Bundle_ValidateBundleSignature ==
    /\ BundleStep("ValidateBundleSignature", bundle)
    /\ UNCHANGED <<bundle, bundleIdx>>

\* Lines 466-468: on success b.bundle holds the packages of the file.
Bundle_ReadYaml ==
    /\ BundleStep("ReadYaml", bundleYaml)
    /\ IF bundlePc' = "returned"
       THEN UNCHANGED <<bundle, bundleIdx>>
       ELSE bundle' = bundleYaml /\ bundleIdx' = 1

\* Lines 476-481: strings.Split(pkg.Ref, "@sha256:")[1] panics on a Ref
\* without a digest; then utils.MakeTempDir.
Bundle_MakeTempDir ==
    /\ bundlePc = "MakeTempDir"
    /\ IF ~bundle[bundleIdx].hasDigest
       THEN /\ bundlePc' = "returned"
            /\ bundleErr' = "panic"
            /\ UNCHANGED <<bundleLog, bundleYaml>>
            /\ UNCHANGED nonBundleVars
       ELSE BundleStep("MakeTempDir", bundle)
    /\ UNCHANGED <<bundle, bundleIdx>>

\* Lines 482-485
Bundle_LoadPackage ==
    /\ BundleStep("LoadPackage", bundle)
    /\ UNCHANGED <<bundle, bundleIdx>>

\* Lines 487-495
Bundle_WriteFile ==
    /\ BundleStep("WriteFile", bundle)
    /\ UNCHANGED <<bundle, bundleIdx>>

\* Lines 497-511
Bundle_New ==
    /\ BundleStep("New", bundle)
    /\ UNCHANGED <<bundle, bundleIdx>>

\* Lines 512-514
Bundle_SetTempDirectory ==
    /\ BundleStep("SetTempDirectory", bundle)
    /\ UNCHANGED <<bundle, bundleIdx>>

\* Lines 515-518: pkgClient.Deploy, and the loop goes to the next package.
Bundle_Deploy ==
    /\ BundleStep("Deploy", bundle)
    /\ bundleIdx' = IF bundlePc' = "returned" THEN bundleIdx ELSE bundleIdx + 1
    /\ UNCHANGED bundle

\* Line 519
Bundle_Done ==
    /\ bundlePc = "done"
    /\ bundlePc' = "returned"
    /\ bundleErr' = "nil"
    /\ UNCHANGED <<bundleYaml, bundle, bundleIdx, bundleLog>>
    /\ UNCHANGED nonBundleVars

RECURSIVE SeqsUpTo(_, _)
SeqsUpTo(n, S) ==
    IF n = 0 THEN {<<>>}
    ELSE SeqsUpTo(n - 1, S)
         \cup {Append(q, x) : q \in {r \in SeqsUpTo(n - 1, S) : Len(r) = n - 1},
                              x \in S}

InitBundle ==
    /\ bundlePc = "NewProvider"
    /\ bundleYaml \in SeqsUpTo(MaxPackages, BundlePackages)
    /\ bundle = <<>>
    /\ bundleIdx = 0
    /\ bundleLog = <<>>
    /\ bundleErr = "none"
    /\ NonBundleIdle

NextBundle ==
    \/ Bundle_NewProvider
    \/ Bundle_LoadBundleMetadata
    \/ Bundle_ValidateBundleSignature
    \/ Bundle_ReadYaml
    \/ Bundle_MakeTempDir
    \/ Bundle_LoadPackage
    \/ Bundle_WriteFile
    \/ Bundle_New
    \/ Bundle_SetTempDirectory
    \/ Bundle_Deploy
    \/ Bundle_Done

SpecBundle == InitBundle /\ [][NextBundle]_vars

----------------------------------------------------------------------------
(* utils.ReplaceTextTemplate                                                *)

MaxPieces == 3
MaxTplRuns == 2
maxCapacity == 8

\* Text is a sequence of characters. templateRegex matches a key between two
\* "#"; the keys are "a" and "b".
TemplateKeys == {"a", "b"}
TemplateOf(key) == <<"#", key, "#">>
Newline == "\n"

\* The files are made of these pieces.
Pieces == {TemplateOf("a"), TemplateOf("b"), <<"a">>, <<"#">>, <<" ">>, <<Newline>>}
TemplateValues == {<<"#">>, <<"a", Newline, "a">>, TemplateOf("b")}

\* TextTemplate; for a template of the file type Value stands for the
\* contents of the file at the path, which is a text file or not and can be
\* read or not.
RawVariableType == "raw"
FileVariableType == "file"
TextTemplates ==
    [Value : TemplateValues, AutoIndent : BOOLEAN, Type : {RawVariableType},
     isText : {TRUE}, readable : {TRUE}]
    \cup [Value : TemplateValues, AutoIndent : BOOLEAN, Type : {FileVariableType},
          isText : BOOLEAN, readable : BOOLEAN]

\* Lines 153, 172: the leftmost template of the line, the text before it and
\* the text after it; no match when the line has no template.
IsTemplateAt(line, i) ==
    /\ i + 2 <= Len(line)
    /\ line[i] = "#"
    /\ line[i + 1] \in TemplateKeys
    /\ line[i + 2] = "#"
HasTemplate(line) == \E i \in 1..Len(line) : IsTemplateAt(line, i)
FindStringSubmatch(line) ==
    LET i == CHOOSE j \in 1..Len(line) :
                 /\ IsTemplateAt(line, j)
                 /\ \A k \in 1..(j - 1) : ~IsTemplateAt(line, k)
    IN  [preTemplate |-> SubSeq(line, 1, i - 1),
         template |-> SubSeq(line, i, i + 2),
         postTemplate |-> SubSeq(line, i + 3, Len(line))]

\* Line 164: bufio.ScanLines, the lines of the content without their newline.
RECURSIVE ScanLines(_)
ScanLines(content) ==
    IF content = <<>> THEN <<>>
    ELSE IF \E i \in 1..Len(content) : content[i] = Newline
    THEN LET i == CHOOSE j \in 1..Len(content) :
                      /\ content[j] = Newline
                      /\ \A k \in 1..(j - 1) : content[k] # Newline
         IN  <<SubSeq(content, 1, i - 1)>>
             \o ScanLines(SubSeq(content, i + 1, Len(content)))
    ELSE <<content>>

\* Lines 159-161: a line that does not fit the buffer ends the scan.
TooLong(line) == Len(line) >= maxCapacity

\* strings.Repeat(" ", n)
RECURSIVE Repeat(_, _)
Repeat(c, n) == IF n = 0 THEN <<>> ELSE <<c>> \o Repeat(c, n - 1)

\* strings.ReplaceAll(value, "\n", indent)
RECURSIVE ReplaceAllNewlines(_, _)
ReplaceAllNewlines(value, indent) ==
    IF value = <<>> THEN <<>>
    ELSE (IF Head(value) = Newline THEN indent ELSE <<Head(value)>>)
         \o ReplaceAllNewlines(Tail(value), indent)

\* An indent that repeats the text before the template.
IndentOfPreTemplate(preTemplate) == <<Newline>> \o preTemplate

\* Line 215: fmt.Sprintf("\n%s", strings.Repeat(" ", len(preTemplate)))
Indent(preTemplate) == <<Newline>> \o Repeat(" ", Len(preTemplate))

\* Lines 197-208: what a skipped substitution adds to text.
Skipped(preTemplate) == <<>>

\* Lines 171-223: the loop over the templates of one line.
RECURSIVE Templated(_, _)
Templated(line, maps) ==
    IF ~HasTemplate(line)
    THEN line \o <<Newline>>
    ELSE LET matches == FindStringSubmatch(line)
             templateKey == matches.template
             preTemplate == matches.preTemplate
         IN  IF templateKey \notin DOMAIN maps
             THEN preTemplate \o templateKey \o Templated(matches.postTemplate, maps)
             ELSE LET template == maps[templateKey] IN
                  IF /\ template.Type = FileVariableType
                     /\ (~template.isText \/ ~template.readable)
                  THEN Skipped(preTemplate) \o Templated(matches.postTemplate, maps)
                  ELSE preTemplate
                       \o (IF template.AutoIndent
                           THEN ReplaceAllNewlines(template.Value, Indent(preTemplate))
                           ELSE template.Value)
                       \o Templated(matches.postTemplate, maps)

\* Lines 147-166: os.Open and the scanner. (A caller that got an error does
\* not call again.)
Tpl_Open ==
    /\ tplPc = "idle"
    /\ tplRuns < MaxTplRuns
    /\ tplRuns > 0 => rendered.ok
    /\ tplRuns' = tplRuns + 1
    /\ contentAtCall' = pathContent
    /\ text' = <<>>
    /\ \E fails \in BOOLEAN :
         IF fails
         THEN /\ tplPc' = "returned"
              /\ tplErr' = "ErrOpen"
              /\ scanned' = <<>>
         ELSE /\ tplPc' = "scan"
              /\ tplErr' = "none"
              /\ scanned' = ScanLines(pathContent)
    /\ UNCHANGED <<pathContent, mappings, rendered>>
    /\ UNCHANGED nonTplVars

\* Lines 168-224: one line. fileScanner.Scan returns false on a line that is
\* too long, as it does at the end of the file; its error is not looked at.
Tpl_Scan ==
    /\ tplPc = "scan"
    /\ scanned # <<>>
    /\ IF TooLong(Head(scanned))
       THEN /\ scanned' = <<>>
            /\ UNCHANGED text
       ELSE /\ scanned' = Tail(scanned)
            /\ text' = text \o Templated(Head(scanned), mappings)
    /\ UNCHANGED <<tplPc, pathContent, mappings, tplErr, tplRuns, contentAtCall,
                   rendered>>
    /\ UNCHANGED nonTplVars

\* Line 226
Tpl_Close ==
    /\ tplPc = "scan"
    /\ scanned = <<>>
    /\ tplPc' = "writefile"
    /\ UNCHANGED <<pathContent, mappings, scanned, text, tplErr, tplRuns,
                   contentAtCall, rendered>>
    /\ UNCHANGED nonTplVars

\* Line 228: os.WriteFile opens path with O_TRUNC.
Tpl_WriteFile_Open ==
    /\ tplPc = "writefile"
    /\ \E fails \in BOOLEAN :
         IF fails
         THEN /\ tplPc' = "returned"
              /\ tplErr' = "ErrWriteFile"
              /\ UNCHANGED pathContent
         ELSE /\ tplPc' = "write"
              /\ pathContent' = <<>>
              /\ UNCHANGED tplErr
    /\ UNCHANGED <<mappings, scanned, text, tplRuns, contentAtCall, rendered>>
    /\ UNCHANGED nonTplVars

\* Line 228: os.WriteFile writes text; a write that fails leaves the part of
\* text it had written.
Tpl_WriteFile_Write ==
    /\ tplPc = "write"
    /\ \E fails \in BOOLEAN :
         IF fails
         THEN /\ tplErr' = "ErrWriteFile"
              /\ \E n \in 0..Len(text) : pathContent' = SubSeq(text, 1, n)
         ELSE /\ tplErr' = "nil"
              /\ pathContent' = text
    /\ tplPc' = "returned"
    /\ UNCHANGED <<mappings, scanned, text, tplRuns, contentAtCall, rendered>>
    /\ UNCHANGED nonTplVars

\* ReplaceTextTemplate has returned; it may be called again with the same
\* mappings.
Tpl_Return ==
    /\ tplPc = "returned"
    /\ tplPc' = "idle"
    /\ rendered' = [ok |-> tplErr = "nil", input |-> contentAtCall,
                    content |-> pathContent]
    /\ scanned' = <<>>
    /\ text' = <<>>
    /\ tplErr' = "none"
    /\ contentAtCall' = <<>>
    /\ UNCHANGED <<pathContent, mappings, tplRuns>>
    /\ UNCHANGED nonTplVars

RECURSIVE TextsOf(_)
TextsOf(n) ==
    IF n = 0 THEN {<<>>}
    ELSE TextsOf(n - 1) \cup {t \o p : t \in TextsOf(n - 1), p \in Pieces}

NoMappings == <<>>
MappingsOf(template) == [k \in {TemplateOf("a")} |-> template]

InitTpl ==
    /\ tplPc = "idle"
    /\ pathContent \in TextsOf(MaxPieces)
    /\ mappings \in {NoMappings} \cup {MappingsOf(t) : t \in TextTemplates}
    /\ scanned = <<>>
    /\ text = <<>>
    /\ tplErr = "none"
    /\ tplRuns = 0
    /\ contentAtCall = <<>>
    /\ rendered = [ok |-> FALSE, input |-> <<>>, content |-> <<>>]
    /\ NonTplIdle

NextTpl ==
    \/ Tpl_Open
    \/ Tpl_Scan
    \/ Tpl_Close
    \/ Tpl_WriteFile_Open
    \/ Tpl_WriteFile_Write
    \/ Tpl_Return

SpecTpl == InitTpl /\ [][NextTpl]_vars

----------------------------------------------------------------------------
(* Composition: creator.ComposeComponents and Packager.composeComponents    *)
(* The package composer (import chains, their migration and composition,    *)
(* the merge of variables and constants) is not part of the source at hand: *)
(* a chain is what NewImportChain returned, with what its methods answer.   *)

MaxComponents == 2

ComposeFns == {"ComposeComponents", "composeComponents"}
BuildArchitectures == {"amd64", "arm64"}
OnlyArchitectures == {""} \cup BuildArchitectures
CreateFlavors == {"", "f1"}
OnlyFlavors == {"", "f1", "f2"}

\* types.ZarfComponent: only.cluster.architecture and only.flavor; the place
\* of the component in the package stands for its name.
ZarfComponent(i, a, f) == [index |-> i, Architecture |-> a, Flavor |-> f]
ZarfComponents(n) ==
    UNION {{[i \in 1..k |-> ZarfComponent(i, a[i], f[i])] :
                a \in [1..k -> OnlyArchitectures], f \in [1..k -> OnlyFlavors]} :
           k \in 0..n}

\* composer.CompatibleComponent
CompatibleComponent(component, a, f) ==
    /\ component.Architecture = "" \/ component.Architecture = a
    /\ component.Flavor = "" \/ component.Flavor = f

\* A filter that lets every architecture through.
ArchitectureAlwaysMatches(component, a) == TRUE

\* inspect.go 129: the negation of the condition of the continue.
ArchitectureMatches(component, a) ==
    ~(component.Architecture # "" /\ component.Architecture # a)

\* compose.go 22, inspect.go 129: the component is not skipped.
Kept(fn, component, a, f) ==
    IF fn = "ComposeComponents"
    THEN CompatibleComponent(component, a, f)
    ELSE ArchitectureMatches(component, a)

\* What chain.ContainsOCIImport and chain.OCIImportDefinition answer.
NoOCIImport == [oci |-> FALSE, url |-> "", name |-> ""]
OCIImportDefinitions ==
    {[oci |-> TRUE, url |-> "u1", name |-> "n1"],
     [oci |-> TRUE, url |-> "u1", name |-> "n2"],
     [oci |-> TRUE, url |-> "u2", name |-> "n1"]}

\* The chains NewImportChain can return for the component at i; the warning
\* of its migration is named after the component.
ImportChains(i) ==
    {[index |-> i, import |-> d, warnings |-> w] :
        d \in {NoOCIImport} \cup OCIImportDefinitions, w \in {<<>>, <<i>>}}

\* compose.go 26-27: flavor and architecture are stripped.
Stripped(component) == [component EXCEPT !.Architecture = "", !.Flavor = ""]

\* inspect.go 142: p.cfg.Pkg.Build.OCIImportedComponents[url] = name
WithImport(m, url, name) ==
    [u \in DOMAIN m \cup {url} |-> IF u = url THEN name ELSE m[u]]

\* compose.go 37, inspect.go 146-147: the warnings after chain.Migrate.
Migrated(fn, ws, c) ==
    IF fn = "ComposeComponents" THEN c.warnings ELSE ws \o c.warnings

\* compose.go 13-17, inspect.go 120-124
Compose_Call ==
    /\ composePc = "idle"
    /\ \E fn \in ComposeFns : composeFn' = fn
    /\ composePc' = "loop"
    /\ composeIdx' = 1
    /\ components' = <<>>
    /\ componentsAtCall' = pkgComponents
    /\ UNCHANGED <<pkgComponents, arch, Flavor, warnings, OCIImportedComponents,
                   chain, chains, composeErr>>
    /\ UNCHANGED nonComposeVars

\* compose.go 19-24, inspect.go 126-131: the component is skipped.
Compose_Continue ==
    /\ composePc = "loop"
    /\ composeIdx <= Len(pkgComponents)
    /\ ~Kept(composeFn, pkgComponents[composeIdx], arch, Flavor)
    /\ composeIdx' = composeIdx + 1
    /\ UNCHANGED <<composePc, composeFn, pkgComponents, arch, Flavor, components,
                   warnings, OCIImportedComponents, chain, chains, composeErr,
                   componentsAtCall>>
    /\ UNCHANGED nonComposeVars

\* compose.go 30-33, inspect.go 134-137
Compose_NewImportChain ==
    /\ composePc = "loop"
    /\ composeIdx <= Len(pkgComponents)
    /\ Kept(composeFn, pkgComponents[composeIdx], arch, Flavor)
    /\ \/ /\ \E c \in ImportChains(composeIdx) :
                /\ chain' = c
                /\ chains' = Append(chains, c)
          /\ composePc' = "migrate"
          /\ UNCHANGED <<warnings, composeErr>>
       \/ /\ composePc' = "returned"
          /\ composeErr' = "ErrNewImportChain"
          /\ warnings' = IF composeFn = "ComposeComponents" THEN <<>> ELSE warnings
          /\ UNCHANGED <<chain, chains>>
    /\ UNCHANGED <<composeFn, pkgComponents, arch, Flavor, composeIdx, components,
                   OCIImportedComponents, componentsAtCall>>
    /\ UNCHANGED nonComposeVars

\* compose.go 37, inspect.go 139-147
Compose_Migrate ==
    /\ composePc = "migrate"
    /\ OCIImportedComponents' =
           IF composeFn = "composeComponents" /\ chain.import.oci
           THEN WithImport(OCIImportedComponents, chain.import.url, chain.import.name)
           ELSE OCIImportedComponents
    /\ warnings' = Migrated(composeFn, warnings, chain)
    /\ composePc' = "compose"
    /\ UNCHANGED <<composeFn, pkgComponents, arch, Flavor, composeIdx, components,
                   chain, chains, composeErr, componentsAtCall>>
    /\ UNCHANGED nonComposeVars

\* compose.go 40-44, inspect.go 150-154 (the merge of variables and constants
\* that follows changes nothing of this state)
Compose_Compose ==
    /\ composePc = "compose"
    /\ \/ /\ components' =
                Append(components,
                       IF composeFn = "ComposeComponents"
                       THEN Stripped(pkgComponents[composeIdx])
                       ELSE pkgComponents[composeIdx])
          /\ composeIdx' = composeIdx + 1
          /\ composePc' = "loop"
          /\ UNCHANGED <<warnings, composeErr>>
       \/ /\ composePc' = "returned"
          /\ composeErr' = "ErrCompose"
          /\ warnings' = IF composeFn = "ComposeComponents" THEN <<>> ELSE warnings
          /\ UNCHANGED <<components, composeIdx>>
    /\ UNCHANGED <<composeFn, pkgComponents, arch, Flavor, OCIImportedComponents,
                   chain, chains, componentsAtCall>>
    /\ UNCHANGED nonComposeVars

\* compose.go 52-60, inspect.go 163-169
Compose_Return ==
    /\ composePc = "loop"
    /\ composeIdx > Len(pkgComponents)
    /\ pkgComponents' = components
    /\ composePc' = "returned"
    /\ composeErr' = "nil"
    /\ UNCHANGED <<composeFn, arch, Flavor, composeIdx, components, warnings,
                   OCIImportedComponents, chain, chains, componentsAtCall>>
    /\ UNCHANGED nonComposeVars

InitCompose ==
    /\ composePc = "idle"
    /\ composeFn = "none"
    /\ pkgComponents \in ZarfComponents(MaxComponents)
    /\ arch \in BuildArchitectures
    /\ Flavor \in CreateFlavors
    /\ composeIdx = 0
    /\ components = <<>>
    /\ warnings = <<>>
    /\ OCIImportedComponents = <<>>
    /\ chain = <<>>
    /\ chains = <<>>
    /\ composeErr = "none"
    /\ componentsAtCall = <<>>
    /\ NonComposeIdle

NextCompose ==
    \/ Compose_Call
    \/ Compose_Continue
    \/ Compose_NewImportChain
    \/ Compose_Migrate
    \/ Compose_Compose
    \/ Compose_Return

SpecCompose == InitCompose /\ [][NextCompose]_vars

----------------------------------------------------------------------------
(* sources: OCISource.LoadPackage                                           *)

\* ValidatePackageIntegrity(dst, aggregateChecksum, isPartial): a file that
\* does not match is an error; a file that is missing is one unless isPartial.
ValidatePackageIntegrity(mismatch, missing, partial) ==
    IF mismatch \/ (missing /\ ~partial) THEN "ErrIntegrity" ELSE "nil"

\* Lines 309-317: isPartial unless len(root.Layers) == len(layersToPull).
IsPartial(rootLayers, layers) == ~(Cardinality(rootLayers) = Len(layers))

\* Lines 293-306: the layers of the optional components, with --confirm.
OCI_LayersFromRequestedComponents ==
    /\ ociPc = "idle"
    /\ \E optionalComponents \in SUBSET (ComponentNames \cup {"x"}), confirm \in BOOLEAN :
         /\ OptionalComponents' = optionalComponents
         /\ Confirm' = confirm
         /\ IF optionalComponents # {} /\ confirm
            THEN LET layers == LayersFromRequestedComponents(published, optionalComponents)
                 IN  IF layers.err
                     THEN /\ ociPc' = "returned"
                          /\ ociErr' = "ErrLayers"
                          /\ UNCHANGED ociLayersToPull
                     ELSE /\ ociPc' = "fetchroot"
                          /\ ociLayersToPull' = layers.layers
                          /\ UNCHANGED ociErr
            ELSE /\ ociPc' = "fetchroot"
                 /\ UNCHANGED <<ociLayersToPull, ociErr>>
    /\ UNCHANGED <<isPartial, layersFetched, missingFile>>
    /\ UNCHANGED <<pullVars, nonOCIVars>>

\* Lines 309-316
OCI_FetchRoot ==
    /\ ociPc = "fetchroot"
    /\ \/ /\ isPartial' = IsPartial(RootLayers(published), ociLayersToPull)
          /\ ociPc' = "pull"
          /\ UNCHANGED ociErr
       \/ /\ ociPc' = "returned"
          /\ ociErr' = "ErrFetchRoot"
          /\ UNCHANGED isPartial
    /\ UNCHANGED <<OptionalComponents, Confirm, ociLayersToPull, layersFetched,
                   missingFile>>
    /\ UNCHANGED <<pullVars, nonOCIVars>>

\* Lines 318-322: a layer that was not pulled leaves its file out of dst; a
\* package can lack a file of its checksums.txt even when pulled whole.
OCI_PullPackage ==
    /\ ociPc = "pull"
    /\ \E copyFails \in BOOLEAN, missing \in BOOLEAN :
         LET fetched == PullPackage(published, ociLayersToPull, copyFails) IN
         /\ layersFetched' = fetched
         /\ missingFile' = (missing \/ fetched.copied # RootLayers(published))
         /\ IF copyFails
            THEN ociPc' = "returned" /\ ociErr' = "ErrPullPackage"
            ELSE ociPc' = "readyaml" /\ UNCHANGED ociErr
    /\ UNCHANGED <<OptionalComponents, Confirm, ociLayersToPull, isPartial>>
    /\ UNCHANGED <<pullVars, nonOCIVars>>

\* Lines 324-326
OCI_ReadYaml ==
    /\ ociPc = "readyaml"
    /\ \/ ociPc' = "validate" /\ UNCHANGED ociErr
       \/ ociPc' = "returned" /\ ociErr' = "ErrReadYaml"
    /\ UNCHANGED <<OptionalComponents, Confirm, ociLayersToPull, isPartial,
                   layersFetched, missingFile>>
    /\ UNCHANGED <<pullVars, nonOCIVars>>

\* Lines 328-330
OCI_ValidatePackageIntegrity ==
    /\ ociPc = "validate"
    /\ \E mismatch \in BOOLEAN :
         LET err == ValidatePackageIntegrity(mismatch, missingFile, isPartial) IN
         IF err = "nil"
         THEN ociPc' = "loaded" /\ UNCHANGED ociErr
         ELSE ociPc' = "returned" /\ ociErr' = err
    /\ UNCHANGED <<OptionalComponents, Confirm, ociLayersToPull, isPartial,
                   layersFetched, missingFile>>
    /\ UNCHANGED <<pullVars, nonOCIVars>>

\* Lines 332-344: the signature, the components and the SBOMs.
OCI_Return ==
    /\ ociPc = "loaded"
    /\ \E err \in {"nil", "ErrSignature", "ErrLoadComponents", "ErrUnarchive"} :
         ociErr' = err
    /\ ociPc' = "returned"
    /\ UNCHANGED <<OptionalComponents, Confirm, ociLayersToPull, isPartial,
                   layersFetched, missingFile>>
    /\ UNCHANGED <<pullVars, nonOCIVars>>

InitOCI ==
    /\ OCIIdle
    /\ published \in {p \in Packages :
                        p.images["a"] \subseteq {"i1"} /\ p.images["c"] \subseteq {"i2"}}
    /\ pullPc = "idle"
    /\ requestedComponents = {}
    /\ layersToPull = Layers(<<>>)
    /\ pulled = [returned |-> FALSE]
    /\ NonOCIIdle

NextOCI ==
    \/ OCI_LayersFromRequestedComponents
    \/ OCI_FetchRoot
    \/ OCI_PullPackage
    \/ OCI_ReadYaml
    \/ OCI_ValidatePackageIntegrity
    \/ OCI_Return

SpecOCI == InitOCI /\ [][NextOCI]_vars

----------------------------------------------------------------------------
(* bigbang: Create                                                          *)

MaxValuesFiles == 1

ZarfYaml == "zarf.yaml"
BigbangZarfYaml == "bigbang-zarf.yaml"

CreateInputs ==
    [skipFlux : BOOLEAN, airgap : BOOLEAN, valuesFileManifests : 0..MaxValuesFiles]

RECURSIVE ValuesSteps(_)
ValuesSteps(n) ==
    IF n = 0 THEN <<>>
    ELSE ValuesSteps(n - 1) \o <<"getValuesFromManifest", "WriteFile">>

\* build.go 121-342: the calls of Create that can fail, in their order.
CreateSteps(in) ==
    <<"MakeTempDir", "isValidVersion">>
    \o (IF ~in.skipFlux
        THEN <<"getBBFile", "getBBFile", "Mkdir", "kustomize.Build">>
             \o (IF in.airgap THEN <<"readFluxImages">> ELSE <<>>)
        ELSE <<>>)
    \o ValuesSteps(in.valuesFileManifests)
    \o <<"PackageChartFromGit", "TemplateChart", "findBBResources">>
    \o (IF in.airgap THEN <<"findImagesForBBChartRepo">> ELSE <<>>)
    \o <<"Mkdir", "addBigBangManifests", "WriteYaml">>

\* What a step that succeeds writes into the temp directory.
TmpFilesOf(step, idx) ==
    CASE step = "getBBFile" -> {<<"flux", idx>>}
      [] step = "WriteFile" -> {<<"values", idx>>}
      [] step = "PackageChartFromGit" -> {<<"bigbang", idx>>}
      [] OTHER -> {}

\* build.go 336-340: the name of the package definition.
BaseFile(name) == <<"file", name>>
WrittenByCreate(name) == <<"written", name>>
OutputName(present) ==
    IF BaseFile(ZarfYaml) \in present THEN BigbangZarfYaml ELSE ZarfYaml

\* What a step that succeeds writes into baseDir.
BaseFilesOf(step, present) ==
    CASE step = "kustomize.Build" -> {BaseFile("flux/bb-flux.yaml")}
      [] step = "addBigBangManifests" -> {BaseFile("manifests")}
      [] step = "WriteYaml" -> {WrittenByCreate(OutputName(present)),
                                BaseFile(OutputName(present))}
      [] OTHER -> {}

\* What Create returns when the step fails; build.go 165-168: return nil.
ReturnedWhenFails(step) == IF step = "readFluxImages" THEN "nil" ELSE "Err_" \o step

\* build.go 125: defer os.Remove(tmpDir), which removes an empty directory.
Remove(dir, present) == IF dir = "exists" /\ present = {} THEN "removed" ELSE dir

CreateStep ==
    IF createPc = "run" THEN CreateSteps(createIn)[createIdx] ELSE "none"

\* A step of Create: it fails and Create returns, or it succeeds and Create
\* goes on, or returns nil after the last one.
CreateStepDone ==
    /\ createPc = "run"
    /\ \E ok \in BOOLEAN :
         LET present == IF ok THEN tmpFiles \cup TmpFilesOf(CreateStep, createIdx)
                      ELSE tmpFiles
             returns == ~ok \/ createIdx = Len(CreateSteps(createIn))
         IN  /\ tmpFiles' = present
             /\ baseFiles' = IF ok THEN baseFiles \cup BaseFilesOf(CreateStep, baseFiles)
                             ELSE baseFiles
             /\ createFailed' = ~ok
             /\ createErr' = IF ~ok THEN ReturnedWhenFails(CreateStep)
                             ELSE IF returns THEN "nil" ELSE createErr
             /\ createPc' = IF returns THEN "returned" ELSE "run"
             /\ createIdx' = IF returns THEN createIdx ELSE createIdx + 1
             /\ tmpDir' = IF returns THEN Remove(tmpDir, present) ELSE tmpDir
    /\ UNCHANGED createIn
    /\ UNCHANGED nonCreateVars

\* build.go 109-125
Create_MakeTempDir ==
    /\ createPc = "idle"
    /\ \E in \in CreateInputs : createIn' = in
    /\ \/ /\ tmpDir' = "exists"
          /\ createPc' = "run"
          /\ createIdx' = 2
          /\ UNCHANGED <<createErr, createFailed>>
       \/ /\ createPc' = "returned"
          /\ createErr' = ReturnedWhenFails("MakeTempDir")
          /\ createFailed' = TRUE
          /\ UNCHANGED <<tmpDir, createIdx>>
    /\ UNCHANGED <<tmpFiles, baseFiles>>
    /\ UNCHANGED nonCreateVars

\* build.go 127-133
Create_isValidVersion == CreateStep = "isValidVersion" /\ CreateStepDone

\* build.go 135-159, 171-172
Create_Flux ==
    /\ CreateStep \in {"getBBFile", "kustomize.Build"}
         \/ (CreateStep = "Mkdir" /\ createIdx = 5)
    /\ CreateStepDone

\* build.go 163-169
Create_readFluxImages == CreateStep = "readFluxImages" /\ CreateStepDone

\* build.go 182-193
Create_Values ==
    /\ CreateStep \in {"getValuesFromManifest", "WriteFile"}
    /\ CreateStepDone

\* build.go 195-225, 303-318
Create_Chart ==
    /\ CreateStep \in {"PackageChartFromGit", "TemplateChart", "findBBResources",
                       "findImagesForBBChartRepo"}
    /\ CreateStepDone

\* build.go 320-330
Create_Manifests ==
    /\ CreateStep = "addBigBangManifests" \/ (CreateStep = "Mkdir" /\ createIdx # 5)
    /\ CreateStepDone

\* build.go 336-347
Create_WriteYaml == CreateStep = "WriteYaml" /\ CreateStepDone

InitCreate ==
    /\ createPc = "idle"
    /\ createIn = [skipFlux |-> FALSE, airgap |-> FALSE, valuesFileManifests |-> 0]
    /\ createIdx = 0
    /\ tmpDir = "none"
    /\ tmpFiles = {}
    /\ baseFiles \in {{}, {BaseFile(ZarfYaml)}}
    /\ createErr = "none"
    /\ createFailed = FALSE
    /\ NonCreateIdle

NextCreate ==
    \/ Create_MakeTempDir
    \/ Create_isValidVersion
    \/ Create_Flux
    \/ Create_readFluxImages
    \/ Create_Values
    \/ Create_Chart
    \/ Create_Manifests
    \/ Create_WriteYaml

SpecCreate == InitCreate /\ [][NextCreate]_vars

----------------------------------------------------------------------------
(* helm: NewFromZarfManifest                                                *)

MaxCharts == 2
Sha1HexLen == 40

\* Names of packages, components and manifests: letters and hyphens.
HelmNames == {<<"a">>, <<"b">>, <<"a", "-", "b">>}
HelmInputs == [packageName : HelmNames, componentName : HelmNames, Name : HelmNames]

\* hex.EncodeToString of one byte.
HexOfByte(c) ==
    CASE c = "a" -> <<"6", "1">>
      [] c = "b" -> <<"6", "2">>
      [] c = "r" -> <<"7", "2">>
      [] c = "w" -> <<"7", "7">>
      [] c = "z" -> <<"7", "a">>
      [] c = "f" -> <<"6", "6">>
      [] OTHER   -> <<"2", "d">>
RECURSIVE HexOf(_)
HexOf(bytes) ==
    IF bytes = <<>> THEN <<>> ELSE HexOfByte(Head(bytes)) \o HexOf(Tail(bytes))

\* hex.EncodeToString(sha1.Sum(bytes)): 40 hex characters. The digest stands
\* for SHA-1 as a function without collisions: the bytes themselves, padded.
Sha1Hex(bytes) ==
    LET hex == HexOf(bytes) IN
    [i \in 1..Sha1HexLen |-> IF i <= Len(hex) THEN hex[i] ELSE "0"]

\* Line 71: fmt.Sprintf("raw-%s-%s-%s", packageName, componentName, manifest.Name)
RawChartName(packageName, componentName, name) ==
    <<"r", "a", "w", "-">> \o packageName \o <<"-">> \o componentName
    \o <<"-">> \o name

\* Line 99: fmt.Sprintf("zarf-%s", sha1ReleaseName)
ReleaseName(sha1ReleaseName) == <<"z", "a", "r", "f", "-">> \o sha1ReleaseName

\* Lines 62-75
Helm_Name ==
    /\ helmPc = "idle"
    /\ Len(helmCharts) < MaxCharts
    /\ \E in \in HelmInputs : helmIn' = in
    /\ helmPc' = "files"
    /\ helmErr' = "none"
    /\ UNCHANGED helmCharts
    /\ UNCHANGED nonHelmVars

\* Lines 82-113: the manifest files are read, and h.chart is set.
Helm_Chart ==
    /\ helmPc = "files"
    /\ \/ /\ helmErr' = "ErrReadFile"
          /\ UNCHANGED helmCharts
       \/ /\ helmErr' = "nil"
          /\ helmCharts' =
                Append(helmCharts,
                       LET rawChartName == RawChartName(helmIn.packageName,
                                                        helmIn.componentName,
                                                        helmIn.Name)
                       IN [in |-> helmIn,
                           Name |-> rawChartName,
                           ReleaseName |-> ReleaseName(Sha1Hex(rawChartName))])
    /\ helmPc' = "idle"
    /\ UNCHANGED helmIn
    /\ UNCHANGED nonHelmVars

InitHelm ==
    /\ helmPc = "idle"
    /\ helmIn = <<>>
    /\ helmCharts = <<>>
    /\ helmErr = "none"
    /\ NonHelmIdle

NextHelm == Helm_Name \/ Helm_Chart

SpecHelm == InitHelm /\ [][NextHelm]_vars

----------------------------------------------------------------------------
(* utils: ExecuteWait, waitForNetworkEndpoint                               *)

\* Time is counted in tenths of a second.
Second == 10
Millisecond100 == 1
MaxTimeout == 21
MaxCmdTime == 2

NetworkKinds == {"http", "https", "tcp"}

\* The arguments: a kind, an identifier, a condition and a timeout.
WaitInputs ==
    [kind : {"pod"}, identifier : {"", "app"},
     condition : {"", "exists", "Ready"}, timeout : 0..MaxTimeout]
    \cup [kind : {"http"}, identifier : {"host"},
          condition : {"", "Success", "404", "abc", "999"},
          timeout : 0..MaxTimeout]
    \cup [kind : {"tcp"}, identifier : {"host"}, condition : {""},
          timeout : 0..MaxTimeout]

\* How long a command or a network call takes before it returns.
Durations == {0, MaxCmdTime}

\* Line 122: strings.ToLower
ToLower(condition) == IF condition = "Success" THEN "success" ELSE condition

\* Lines 122-125
NetworkCondition(condition) ==
    IF ToLower(condition) = "" THEN "success" ELSE ToLower(condition)

\* Line 158: strconv.Atoi; -1 stands for its error.
Atoi(s) ==
    CASE s = "404" -> 404
      [] s = "999" -> 999
      [] s = "200" -> 200
      [] OTHER -> 0 - 1

\* Line 162: http.StatusText(code) == ""
StatusKnown(code) == code \in {200, 204, 404, 500}

\* What http.Get answers: a status, or 0 for an error.
Responses == {0, 200, 204, 404, 500}

\* A select that never takes the expired case.
NeverExpired(now, deadline) == {FALSE}

\* Lines 77-79, 135-137: whether the channel of time.After has delivered when
\* the select runs: not before the deadline, surely after it.
Expired(now, deadline) ==
    IF now > deadline THEN {TRUE}
    ELSE IF now = deadline THEN BOOLEAN
    ELSE {FALSE}

NoIteration ==
    [began |-> 0 - 1, expired |-> FALSE, get |-> "none", wait |-> "none",
     status |-> 0 - 1, conn |-> "none"]

WaitReturn(err) ==
    /\ waitPc' = "returned"
    /\ waitErr' = err

WaitContinue ==
    /\ waitPc' = "sleep"
    /\ UNCHANGED waitErr

\* Lines 32-71, 118-128: up to the loop.
Wait_Call ==
    /\ waitPc = "call"
    /\ IF waitIn.kind \in NetworkKinds
       THEN /\ waitPc' = "sleep"
            /\ waitDeadline' = waitNow + waitIn.timeout
            /\ waitDelay' = Millisecond100
            /\ UNCHANGED waitErr
       ELSE \E found \in BOOLEAN :
              IF found
              THEN /\ waitPc' = "sleep"
                   /\ waitDeadline' = waitNow + waitIn.timeout
                   /\ waitDelay' = Second
                   /\ UNCHANGED waitErr
              ELSE /\ WaitReturn("ErrExecutable")
                   /\ UNCHANGED <<waitDeadline, waitDelay>>
    /\ UNCHANGED <<waitIn, waitNow, waitIter>>
    /\ UNCHANGED nonWaitVars

\* Lines 73, 132-133: time.Sleep
Wait_Sleep ==
    /\ waitPc = "sleep"
    /\ waitNow' = waitNow + waitDelay
    /\ waitDelay' = Second
    /\ waitPc' = "select"
    /\ UNCHANGED <<waitIn, waitDeadline, waitIter, waitErr>>
    /\ UNCHANGED nonWaitVars

\* Lines 75-79, 135-138: the select
Wait_Select ==
    /\ waitPc = "select"
    /\ \E e \in Expired(waitNow, waitDeadline) :
         /\ waitIter' = [NoIteration EXCEPT !.began = waitNow, !.expired = e]
         /\ IF e THEN WaitReturn("wait timed out")
                 ELSE /\ waitPc' = "check"
                      /\ UNCHANGED waitErr
    /\ UNCHANGED <<waitIn, waitNow, waitDeadline, waitDelay>>
    /\ UNCHANGED nonWaitVars

\* Lines 80-98: kubectl get
Wait_KubectlGet ==
    /\ waitPc = "check"
    /\ waitIn.kind \notin NetworkKinds
    /\ \E res \in {"err", "notfound", "ok"}, d \in Durations :
         /\ waitNow' = waitNow + d
         /\ waitIter' = [waitIter EXCEPT !.get = res]
         /\ IF res = "err" THEN WaitContinue
            ELSE IF res = "notfound" /\ waitIn.identifier = "" THEN WaitContinue
            ELSE IF waitIn.condition \in {"", "exist", "exists"}
            THEN WaitReturn("nil")
            ELSE /\ waitPc' = "wait"
                 /\ UNCHANGED waitErr
    /\ UNCHANGED <<waitIn, waitDeadline, waitDelay>>
    /\ UNCHANGED nonWaitVars

\* Lines 100-112: kubectl wait
Wait_KubectlWait ==
    /\ waitPc = "wait"
    /\ \E ok \in BOOLEAN, d \in Durations :
         /\ waitNow' = waitNow + d
         /\ waitIter' = [waitIter EXCEPT !.wait = IF ok THEN "ok" ELSE "err"]
         /\ IF ok THEN WaitReturn("nil") ELSE WaitContinue
    /\ UNCHANGED <<waitIn, waitDeadline, waitDelay>>
    /\ UNCHANGED nonWaitVars

\* Lines 140-172: http and https
Wait_Http ==
    /\ waitPc = "check"
    /\ waitIn.kind \in {"http", "https"}
    /\ LET condition == NetworkCondition(waitIn.condition)
           code == Atoi(condition)
       IN  IF condition = "success"
           THEN \E resp \in Responses, d \in Durations :
                  /\ waitNow' = waitNow + d
                  /\ waitIter' = [waitIter EXCEPT !.status = resp]
                  /\ IF resp = 0 \/ resp < 200 \/ resp > 299
                     THEN WaitContinue ELSE WaitReturn("nil")
           ELSE IF code = 0 - 1
           THEN /\ WaitReturn("ErrNotAnInteger")
                /\ UNCHANGED <<waitNow, waitIter>>
           ELSE IF ~StatusKnown(code)
           THEN /\ WaitReturn("ErrUnknownCode")
                /\ UNCHANGED <<waitNow, waitIter>>
           ELSE \E resp \in Responses, d \in Durations :
                  /\ waitNow' = waitNow + d
                  /\ waitIter' = [waitIter EXCEPT !.status = resp]
                  /\ IF resp = 0 \/ resp # code
                     THEN WaitContinue ELSE WaitReturn("nil")
    /\ UNCHANGED <<waitIn, waitDeadline, waitDelay>>
    /\ UNCHANGED nonWaitVars

\* Lines 173-185: net.Dial and conn.Close
Wait_Dial ==
    /\ waitPc = "check"
    /\ waitIn.kind \notin {"http", "https"}
    /\ waitIn.kind \in NetworkKinds
    /\ \E res \in {"dial failed", "close failed", "closed"}, d \in Durations :
         /\ waitNow' = waitNow + d
         /\ waitIter' = [waitIter EXCEPT !.conn = res]
         /\ IF res = "closed" THEN WaitReturn("nil") ELSE WaitContinue
    /\ UNCHANGED <<waitIn, waitDeadline, waitDelay>>
    /\ UNCHANGED nonWaitVars

InitWait ==
    /\ waitPc = "call"
    /\ waitIn \in WaitInputs
    /\ waitNow = 0
    /\ waitDeadline = 0
    /\ waitDelay = 0
    /\ waitIter = NoIteration
    /\ waitErr = "none"
    /\ NonWaitIdle

NextWait ==
    \/ Wait_Call
    \/ Wait_Sleep
    \/ Wait_Select
    \/ Wait_KubectlGet
    \/ Wait_KubectlWait
    \/ Wait_Http
    \/ Wait_Dial

\* Every call the loop makes returns and the clock goes on.
SpecWait == InitWait /\ [][NextWait]_vars /\ WF_vars(NextWait)

----------------------------------------------------------------------------
(* oci: the goroutines of Copy                                              *)

MaxConcurrency == 2
MaxCopyLayers == 2
MaxReads == 2

\* concurrency, whether progressTracker is non-nil, len(layers) (the config
\* is always one of them).
CpInputs ==
    [concurrency : 0..MaxConcurrency, tracked : BOOLEAN,
     layers : 1..MaxCopyLayers]

\* Line 104: io.Pipe()
NewPipe == [pending |-> FALSE, closed |-> FALSE]

\* A pusher that leaves pw open.
PwLeftOpen(p, tracked) == p

\* Lines 123-127: the deferred pw.Close(), which also ends a pending Write.
PwClose(p, tracked) ==
    IF tracked THEN [pending |-> FALSE, closed |-> TRUE] ELSE p

Finished(g) == g \in {"none", "done", "failed"}

\* errgroup: the first error is kept and ectx is cancelled.
GroupError(err) == IF egErr = "nil" THEN err ELSE egErr

CpReturn(err) ==
    /\ cpPc' = "returned"
    /\ cpErr' = err

\* Lines 65, 146-148: the next layer, or the end of the loop.
CpNextLayer ==
    IF cpIdx = cpIn.layers
    THEN /\ CpReturn("nil")
         /\ UNCHANGED cpIdx
    ELSE /\ cpPc' = "acquire"
         /\ cpIdx' = cpIdx + 1
         /\ UNCHANGED cpErr

\* Line 71: sem.Acquire(ctx, 1), which waits while no permit is free.
Cp_Acquire ==
    /\ cpPc = "acquire"
    /\ sem < cpIn.concurrency
    /\ sem' = sem + 1
    /\ cpPc' = "exists"
    /\ UNCHANGED <<cpIn, cpIdx, progressG, pushG, pipe, rcLeft, ectxDone, egErr,
                   cpErr>>
    /\ UNCHANGED nonCpVars

\* Lines 76-87: dst.repo.Exists
Cp_Exists ==
    /\ cpPc = "exists"
    /\ \E res \in {"err", "exists", "missing"} :
         CASE res = "err" ->
                /\ CpReturn("ErrExists")
                /\ UNCHANGED <<cpIdx, sem>>
           [] res = "exists" ->
                /\ sem' = sem - 1
                /\ CpNextLayer
           [] OTHER ->
                /\ cpPc' = "fetch"
                /\ UNCHANGED <<cpIdx, sem, cpErr>>
    /\ UNCHANGED <<cpIn, progressG, pushG, pipe, rcLeft, ectxDone, egErr>>
    /\ UNCHANGED nonCpVars

\* Lines 89-136: errgroup.WithContext, src.repo.Fetch, and the two eg.Go.
Cp_Fetch ==
    /\ cpPc = "fetch"
    /\ \E ok \in BOOLEAN, reads \in 0..MaxReads :
         IF ok
         THEN /\ cpPc' = "wait"
              /\ rcLeft' = reads
              /\ ectxDone' = FALSE
              /\ egErr' = "nil"
              /\ progressG' = IF cpIn.tracked THEN "reading" ELSE "none"
              /\ pipe' = IF cpIn.tracked THEN NewPipe ELSE <<>>
              /\ pushG' = "pushing"
              /\ UNCHANGED cpErr
         ELSE /\ CpReturn("ErrFetch")
              /\ UNCHANGED <<progressG, pushG, pipe, rcLeft, ectxDone, egErr>>
    /\ UNCHANGED <<cpIn, cpIdx, sem>>
    /\ UNCHANGED nonCpVars

\* Lines 108, 131: Push reads tr: a read of rc, and with a tracker the write
\* of what was read to pw, which waits for pr to be read.
Push_Read ==
    /\ pushG = "pushing"
    /\ rcLeft > 0
    /\ IF cpIn.tracked
       THEN /\ pushG' = "writing pw"
            /\ pipe' = [pipe EXCEPT !.pending = TRUE]
            /\ UNCHANGED rcLeft
       ELSE /\ rcLeft' = rcLeft - 1
            /\ UNCHANGED <<pushG, pipe>>
    /\ UNCHANGED <<cpPc, cpIn, cpIdx, sem, progressG, ectxDone, egErr, cpErr>>
    /\ UNCHANGED nonCpVars

\* Lines 123-135: Push returns, with nil once rc was read to its end or with
\* an error, and pw is closed.
Push_Return ==
    /\ pushG = "pushing"
    /\ \E ok \in BOOLEAN :
         IF ok
         THEN /\ rcLeft = 0
              /\ pushG' = "done"
              /\ UNCHANGED <<egErr, ectxDone>>
         ELSE /\ pushG' = "failed"
              /\ egErr' = GroupError("ErrPush")
              /\ ectxDone' = TRUE
    /\ pipe' = PwClose(pipe, cpIn.tracked)
    /\ UNCHANGED <<cpPc, cpIn, cpIdx, sem, progressG, rcLeft, cpErr>>
    /\ UNCHANGED nonCpVars

\* Lines 123-135: ectx is cancelled while the write to pw is pending: Push
\* returns the error of the context, and pw is closed.
Push_Cancelled ==
    /\ pushG = "writing pw"
    /\ ectxDone
    /\ pushG' = "failed"
    /\ egErr' = GroupError("ErrPush")
    /\ pipe' = PwClose(pipe, cpIn.tracked)
    /\ UNCHANGED <<cpPc, cpIn, cpIdx, sem, progressG, rcLeft, ectxDone, cpErr>>
    /\ UNCHANGED nonCpVars

\* Line 112: io.Copy reads pr, which ends the pending write to pw.
Progress_Read ==
    /\ progressG = "reading"
    /\ pipe.pending
    /\ progressG' = "writing"
    /\ pipe' = [pipe EXCEPT !.pending = FALSE]
    /\ pushG' = "pushing"
    /\ rcLeft' = rcLeft - 1
    /\ UNCHANGED <<cpPc, cpIn, cpIdx, sem, ectxDone, egErr, cpErr>>
    /\ UNCHANGED nonCpVars

\* Lines 112-115: the tracker's Write; its error ends io.Copy, pr left open.
Progress_Write ==
    /\ progressG = "writing"
    /\ \E ok \in BOOLEAN :
         IF ok
         THEN /\ progressG' = "reading"
              /\ UNCHANGED <<egErr, ectxDone>>
         ELSE /\ progressG' = "failed"
              /\ egErr' = GroupError("ErrProgress")
              /\ ectxDone' = TRUE
    /\ UNCHANGED <<cpPc, cpIn, cpIdx, sem, pushG, pipe, rcLeft, cpErr>>
    /\ UNCHANGED nonCpVars

\* Lines 112-115: pw is closed: io.Copy returns nil.
Progress_EOF ==
    /\ progressG = "reading"
    /\ ~pipe.pending
    /\ pipe.closed
    /\ progressG' = "done"
    /\ UNCHANGED <<cpPc, cpIn, cpIdx, sem, pushG, pipe, rcLeft, ectxDone, egErr,
                   cpErr>>
    /\ UNCHANGED nonCpVars

\* Lines 139-146: eg.Wait, sem.Release
Cp_Wait ==
    /\ cpPc = "wait"
    /\ Finished(progressG)
    /\ Finished(pushG)
    /\ IF egErr # "nil"
       THEN /\ CpReturn(egErr)
            /\ UNCHANGED <<cpIdx, sem>>
       ELSE /\ sem' = sem - 1
            /\ CpNextLayer
    /\ UNCHANGED <<cpIn, progressG, pushG, pipe, rcLeft, ectxDone, egErr>>
    /\ UNCHANGED nonCpVars

InitCp ==
    /\ cpPc = "acquire"
    /\ cpIn \in CpInputs
    /\ cpIdx = 1
    /\ sem = 0
    /\ progressG = "none"
    /\ pushG = "none"
    /\ pipe = <<>>
    /\ rcLeft = 0
    /\ ectxDone = FALSE
    /\ egErr = "nil"
    /\ cpErr = "none"
    /\ NonCpIdle

NextCp ==
    \/ Cp_Acquire
    \/ Cp_Exists
    \/ Cp_Fetch
    \/ Push_Read
    \/ Push_Return
    \/ Push_Cancelled
    \/ Progress_Read
    \/ Progress_Write
    \/ Progress_EOF
    \/ Cp_Wait

\* Every registry call returns and every goroutine that can run does.
SpecCopyGoroutines == InitCp /\ [][NextCp]_vars /\ WF_vars(NextCp)

----------------------------------------------------------------------------
(* cluster: PackageSecretNeedsWait                                          *)

HookNames == {"h1", "h2"}

\* map[string]types.Webhook of one component
HookMaps == [HookNames -> Webhooks]

\* The hooks of a map: NoHook stands for a name that is no key of it.
HooksOf(hookMap) == {h \in DOMAIN hookMap : hookMap[h] # NoHook}

\* deployedPackage.ComponentWebhooks: component a with any hooks or none,
\* component b with a running hook or none.
ComponentWebhooksMaps ==
    {[c \in present |-> IF c = "a" THEN hm
                        ELSE [h \in HookNames |->
                                 IF h = "h1"
                                 THEN [status |-> WebhookStatusRunning,
                                       waitDurationSeconds |-> MaxWaitSeconds]
                                 ELSE NoHook]] :
        present \in SUBSET {"a", "b"}, hm \in HookMaps}

\* *types.DeployedPackage: nil, or a package with its YOLO flag and webhooks.
DeployedPackages ==
    {NoPackage} \cup
    [nil : {FALSE}, yolo : BOOLEAN, ComponentWebhooks : ComponentWebhooksMaps]

NwInputs ==
    [deployedPackage : DeployedPackages, component : {"a", "b"},
     skipWebhooks : BOOLEAN]

\* A check that looks at the flag and the package only.
SkipsWebhooksOfYolo(pkg, skip) ==
    skip \/ pkg.nil

\* Line 378
SkipsWebhooks(pkg, skip) ==
    skip \/ pkg.nil \/ pkg.yolo

\* Lines 375-397: the results PackageSecretNeedsWait can return, the order
\* of a range over a map being any.
NeedsWaitResults(pkg, component, skip) ==
    IF SkipsWebhooks(pkg, skip)
    THEN {<<FALSE, 0, "">>}
    ELSE IF component \notin DOMAIN pkg.ComponentWebhooks
    THEN {<<FALSE, 0, "">>}
    ELSE LET hookMap == pkg.ComponentWebhooks[component]
             running == {h \in HooksOf(hookMap) :
                            hookMap[h].status = WebhookStatusRunning}
         IN  IF running = {}
             THEN {<<FALSE, 0, "">>}
             ELSE {<<TRUE, hookMap[h].waitDurationSeconds, h>> : h \in running}

Nw_Call ==
    /\ nwPc = "call"
    /\ nwOut' \in NeedsWaitResults(nwIn.deployedPackage, nwIn.component,
                                   nwIn.skipWebhooks)
    /\ nwPc' = "returned"
    /\ UNCHANGED nwIn
    /\ UNCHANGED nonNwVars

InitNw ==
    /\ nwPc = "call"
    /\ nwIn \in NwInputs
    /\ nwOut = <<>>
    /\ NonNwIdle

NextNw == Nw_Call

SpecNeedsWait == InitNw /\ [][NextNw]_vars

----------------------------------------------------------------------------
(* C1: RecordPackageDeploymentAndWait, having found a hook of the component *)
(* running, returns success only with a fetched record in which no hook of  *)
(* the component is running; a hook that stays running for the whole wait   *)
(* duration makes it return an error, never success.                        *)
C1_SuccessOnlyWhenNoHookRunning ==
    (rpdPc = "ok" /\ waited) =>
        ~PackageSecretNeedsWait(deployedPackage, skipWebhooks)[1]

(* C2: no committed write of the deployment record is replaced by a writer  *)
(* that never read it: a write goes through only at the resource version    *)
(* its writer read.                                                         *)
C2_NoLostUpdate == ~lostUpdate

(* C3: LoadPackageMetadata of the tarball, split-tarball and OCI sources    *)
(* returns an error whenever integrity or signature validation fails,       *)
(* except that ErrPkgSigButNoKey is passed over when skipValidation is set; *)
(* LoadPackage returns an error on every signature failure.                 *)
C3_ValidationFailuresAreErrors ==
    loadPc = "returned" =>
        /\ loadResult = "ok" =>
             /\ loadIn.integrity = "nil"
             /\ \/ loadIn.signature = "nil"
                \/ /\ loadIn.op = "LoadPackageMetadata"
                   /\ loadIn.signature = ErrPkgSigButNoKey
                   /\ loadIn.skipValidation
        /\ ( /\ loadIn.op = "LoadPackageMetadata"
             /\ loadIn.signature = ErrPkgSigButNoKey
             /\ loadIn.skipValidation
             /\ loadIn.integrity = "nil"
             /\ loadIn.failAt = "none" ) => loadResult = "ok"

C3_Witness ==
    /\ loadPc = "returned"
    /\ loadIn.op = "LoadPackage"
    /\ loadIn.signature = ErrPkgSigButNoKey
    /\ loadIn.skipValidation
    /\ loadResult = ErrPkgSigButNoKey

StepsRun == {loadSteps[i] : i \in 1..Len(loadSteps)}

StepRank(step) ==
    CASE step = "collect" -> 0
      [] step = "extract" -> 1
      [] step = "readyaml" -> 2
      [] step = "integrity" -> 3
      [] step = "signature" -> 4
      [] step = "components" -> 5
      [] step = "sboms" -> 6

(* C4: TarballSource.LoadPackage and OCISource.LoadPackage run extract/pull, *)
(* integrity validation, signature validation, load components, unarchive   *)
(* SBOMs in that order; components are loaded and SBOMs unarchived only      *)
(* after both validations succeeded, and a failed validation is returned     *)
(* without any component loaded.                                             *)
C4_ValidateBeforeLoadingComponents ==
    (loadIn # NoLoad /\ loadIn.op = "LoadPackage" /\ loadIn.kind \in {"tarball", "oci"}) =>
        /\ \A i, j \in 1..Len(loadSteps) :
             i < j => StepRank(loadSteps[i]) < StepRank(loadSteps[j])
        /\ (StepsRun \cap {"components", "sboms"} # {}) =>
             /\ {"integrity", "signature"} \subseteq StepsRun
             /\ loadIn.integrity = "nil"
             /\ loadIn.signature = "nil"
        /\ (loadPc = "returned" /\ "integrity" \in StepsRun /\ loadIn.integrity # "nil") =>
             /\ loadResult = loadIn.integrity
             /\ "components" \notin StepsRun
        /\ (loadPc = "returned" /\ "signature" \in StepsRun /\ loadIn.signature # "nil") =>
             /\ loadResult = loadIn.signature
             /\ "components" \notin StepsRun
        /\ (loadPc = "returned" /\ loadResult = "ok") =>
             loadSteps = <<"extract", "readyaml", "integrity", "signature",
                           "components", "sboms">>

C4_Witness ==
    /\ loadPc = "returned"
    /\ loadIn.op = "LoadPackage"
    /\ loadIn.kind = "oci"
    /\ loadIn.integrity = "nil"
    /\ loadIn.signature = "ErrSignatureInvalid"
    /\ loadResult = "ErrSignatureInvalid"
    /\ loadSteps = <<"extract", "readyaml", "integrity", "signature">>

MandatoryPaths == Range(PackageAlwaysPull)

(* C5: a PullPackage call with a non-empty layersToPull pulls zarf.yaml,    *)
(* checksums.txt and, when the manifest has it, zarf.yaml.sig besides the   *)
(* requested layers: each of these paths is in partialPaths and passes the  *)
(* successor filter, and no layer outside the requested and mandatory ones  *)
(* passes it; a call with empty layersToPull pulls every layer.             *)
C5_MandatorySetAlwaysPulled ==
    pullPc = "pulled" =>
        IF pulled.isPartialPull
        THEN /\ \A path \in MandatoryPaths :
                  ~isEmptyDescriptor(Locate(published, path)) =>
                      /\ path \in Range(pulled.partialPaths)
                      /\ PassesFilter(pulled.shas, Locate(published, path))
                      /\ Locate(published, path) \in pulled.copied
             /\ \A l \in Range(layersToPull.layers) :
                  ~isEmptyDescriptor(l) =>
                      l.title \in Range(pulled.partialPaths) /\ l \in pulled.copied
             /\ \A l \in RootLayers(published) :
                  PassesFilter(pulled.shas, l) =>
                      l \in Range(layersToPull.layers) \/ l.title \in MandatoryPaths
             /\ \A i, j \in 1..Len(pulled.partialPaths) :
                  pulled.partialPaths[i] = pulled.partialPaths[j] => i = j
        ELSE /\ pulled.copied = RootLayers(published)
             /\ layersToPull.layers = <<>>

C5_Witness ==
    /\ pullPc = "pulled"
    /\ requestedComponents = {"b"}
    /\ published.signed
    /\ published.required = {}
    /\ pulled.isPartialPull
    /\ \A path \in MandatoryPaths :
         /\ \A l \in Range(layersToPull.layers) : l.title # path
         /\ Locate(published, path) \in pulled.copied
    /\ Locate(published, ComponentTarPath("a")) \notin pulled.copied

\* The titles of the layers that belong to the components `names`.
LayerTitlesOf(p, names) ==
    LET images == UNION {p.images[n] : n \in names} IN
    {ComponentTarPath(n) : n \in names}
    \cup {ZarfSBOMTar}
    \cup (IF images # {}
          THEN {IndexPath, OCILayoutPath}
               \cup {BlobPath(d) : d \in UNION {ImageBlobDigests(i) : i \in images}}
          ELSE {})

LayersOf(p, names) == {l \in RootLayers(p) : l.title \in LayerTitlesOf(p, names)}

NonEmptyLayers(layers) == {l \in Range(layers) : ~isEmptyDescriptor(l)}

RequestedIsOfPackage ==
    /\ pullPc = "layers"
    /\ requestedComponents # {}
    /\ requestedComponents \subseteq ComponentNames

(* C6 as stated: LayersFromRequestedComponents(C) returns exactly the tars  *)
(* of the components in C, the blobs of their images with oci-layout and    *)
(* index.json, and sboms.tar when there is one; nothing that belongs only   *)
(* to components outside C.                                                 *)
C6_ExactlyRequestedLayers ==
    RequestedIsOfPackage =>
        /\ ~layersToPull.err
        /\ NonEmptyLayers(layersToPull.layers) = LayersOf(published, requestedComponents)

(* C6 as amended: LayersFromRequestedComponents(C) returns exactly the tars *)
(* of the components that are in C or are required, the manifest, config    *)
(* and layer blobs of the images of those components together with          *)
(* oci-layout and index.json when they have an image, and sboms.tar when    *)
(* the package has one; nothing that belongs only to components that are    *)
(* neither in C nor required.                                               *)
C6_RequestedAndRequiredLayers ==
    RequestedIsOfPackage =>
        /\ ~layersToPull.err
        /\ NonEmptyLayers(layersToPull.layers) =
             LayersOf(published, requestedComponents \cup published.required)

C6_Witness ==
    /\ RequestedIsOfPackage
    /\ requestedComponents = {"b"}
    /\ published.required = {"a"}
    /\ published.images["a"] = {"i1"}
    /\ published.images["b"] = {}
    /\ published.images["c"] = {"i2"}
    /\ Locate(published, ComponentTarPath("a")) \in Range(layersToPull.layers)
    /\ Locate(published, BlobPath("l1")) \in Range(layersToPull.layers)
    /\ Locate(published, ComponentTarPath("c")) \notin Range(layersToPull.layers)
    /\ Locate(published, BlobPath("l2")) \notin Range(layersToPull.layers)

----------------------------------------------------------------------------
(* C7, C8: Copy                                                             *)

RegistryOps == {"Exists", "Fetch", "Push"}
RegistryCalls == SelectSeq(copyLog, LAMBDA c : c.op \in RegistryOps)
OpRank(op) == CASE op = "Exists" -> 1 [] op = "Fetch" -> 2 [] op = "Push" -> 3
ErrorOf(op) ==
    CASE op = "Exists" -> "ErrExists" [] op = "Fetch" -> "ErrFetch"
      [] op = "Push" -> "ErrPush"
PositionOf(layer) == CHOOSE i \in 1..Len(copyLayers) : copyLayers[i] = layer
SelectedLayers ==
    {l \in 1..MaxLayers : copyInclude.isNil \/ l \in copyInclude.layers}

----------------------------------------------------------------------------
(* C9, C10: SplitTarballSource.Collect                                      *)

\* The files matching .part* when Collect was called, in lexical order.
PartsAtCall == SortStrings({n \in DOMAIN filesAtCall : n \in AllPartNames})

RECURSIVE Concatenation(_)
Concatenation(names) ==
    IF names = <<>> THEN <<>>
    ELSE filesAtCall[Head(names)].bytes \o Concatenation(Tail(names))

\* C9: when Collect returns nil, the first of the .part* files was a header,
\* the number of the other .part* files equals the header's count, the
\* header's sha256 equals the Shasum option if one is given, the SHA-256 of
\* the other parts concatenated in lexical order equals the header's sha256,
\* and the destination tarball holds exactly that concatenation; so in every
\* other case Collect has returned an error.
C9_SuccessOnlyOnCountAndChecksums ==
    collectPc = "returned" /\ collectErr = "nil" =>
        /\ PartsAtCall # <<>>
        /\ LET header == filesAtCall[Head(PartsAtCall)].header
               data == Concatenation(Tail(PartsAtCall))
           IN  /\ header # NoHeader
               /\ Len(PartsAtCall) - 1 = header.count
               /\ Shasum # NoSha => header.sha256Sum = Shasum
               /\ Sha256(data) = header.sha256Sum
               /\ dstTarball \in DOMAIN files
               /\ files[dstTarball].bytes = data

\* Collect has reassembled two data parts of different bytes, with a Shasum
\* option given.
C9_Witness ==
    /\ collectPc = "returned"
    /\ collectErr = "nil"
    /\ Shasum # NoSha
    /\ Len(PartsAtCall) = 3
    /\ files[dstTarball].bytes = <<0, 1>>

\* C10: a part file that existed at the call is gone only if Collect has
\* passed the checksum comparison; when Collect has returned an error every
\* part file that existed at the call still exists, and when it has returned
\* nil none of them exists any more.
C10_PartsRemovedExactlyOnSuccess ==
    LET parts == {n \in DOMAIN filesAtCall : n \in AllPartNames} IN
    /\ (\E n \in parts : n \notin DOMAIN files) =>
           collectPc = "returned" /\ collectErr = "nil"
    /\ collectPc = "returned" /\ collectErr # "nil" =>
           \A n \in parts : n \in DOMAIN files
    /\ collectPc = "returned" /\ collectErr = "nil" =>
           \A n \in parts : n \notin DOMAIN files

----------------------------------------------------------------------------
(* C11: SplitFile                                                           *)

RECURSIVE Joined(_)
Joined(seqs) == IF seqs = <<>> THEN <<>> ELSE Head(seqs) \o Joined(Tail(seqs))

\* C11: when SplitFile has returned, its chunks joined in order are the file,
\* every chunk is non-empty and at most the chunk size long, all but the last
\* exactly that long, and sha256sum is the SHA-256 of the file; when Collect
\* has run on the parts written from them, it has failed only where a file
\* operation failed, and when it returned nil the tarball is the file.
C11_SplitThenCollectIsIdentity ==
    /\ splitPc \in {"returned", "written"} =>
         /\ Joined(chunks) = original
         /\ sha256sum = Sha256(original)
         /\ \A i \in 1..Len(chunks) :
                /\ Len(chunks[i]) >= 1
                /\ Len(chunks[i]) <= chunkSizeAtCall
                /\ i < Len(chunks) => Len(chunks[i]) = chunkSizeAtCall
    /\ splitPc = "written" /\ collectPc = "returned" /\ PackageSource = Part000 =>
         /\ collectErr \in {"nil", "ErrCreate", "ErrCopy"}
         /\ collectErr = "nil" => files[Tarball].bytes = original

\* A file of three bytes split into chunks of two, the last chunk shorter,
\* written as parts and reassembled by Collect.
C11_Witness ==
    /\ splitPc = "written"
    /\ Len(original) = 3
    /\ Len(chunks) = 2
    /\ Len(chunks[2]) = 1
    /\ collectPc = "returned"
    /\ collectErr = "nil"
    /\ files[Tarball].bytes = original

----------------------------------------------------------------------------
(* C12: the generation of the deployment record                             *)

\* The step in which RecordPackageDeployment's Create or Update succeeds.
RPD_Recorded == rpdPc \in {"create", "update"} /\ rpdPc' = "recorded"

\* C12: the generation RecordPackageDeployment stores is one more than the
\* generation of the record it replaces, and 1 when there was no record.
C12_GenerationCountsUp ==
    [][RPD_Recorded =>
         secret'.data.generation =
             IF secret = NoSecret THEN 1 ELSE secret.data.generation + 1]_vars

\* C12, as the code has it: the generation RecordPackageDeployment stores and
\* returns is its generation argument, whatever record it replaces.
C12_GenerationIsTheArgument ==
    [][RPD_Recorded =>
         /\ secret'.data.generation = generation
         /\ deployedPackage'.generation = generation]_vars

\* RecordPackageDeployment has replaced a record of generation 1 by a record
\* of generation 1.
C12_Witness ==
    /\ rpdPc = "recorded"
    /\ rpdReadRv # 0
    /\ generation = 1
    /\ secret # NoSecret
    /\ secret.data.generation = 1
    /\ deployedPackage.generation = 1

----------------------------------------------------------------------------
(* C13: Bundler.Deploy                                                      *)

CallsOf(op) == {i \in 1..Len(bundleLog) : bundleLog[i].op = op}

----------------------------------------------------------------------------
(* C14..C17: ReplaceTextTemplate                                            *)

\* The templates of a line from left to right, none overlapping the one
\* before it: the positions at which they start.
RECURSIVE TemplateStarts(_, _)
TemplateStarts(line, from) ==
    IF from > Len(line) THEN <<>>
    ELSE IF IsTemplateAt(line, from)
    THEN <<from>> \o TemplateStarts(line, from + 3)
    ELSE TemplateStarts(line, from + 1)

\* The line with each of its templates replaced by the value of its key, or
\* left as it is when the key is not in the mappings.
RECURSIVE SubstitutedFrom(_, _, _)
SubstitutedFrom(line, from, starts) ==
    IF starts = <<>> THEN SubSeq(line, from, Len(line))
    ELSE LET i == Head(starts)
             key == SubSeq(line, i, i + 2)
         IN  SubSeq(line, from, i - 1)
             \o (IF key \in DOMAIN mappings THEN mappings[key].Value ELSE key)
             \o SubstitutedFrom(line, i + 3, Tail(starts))
RECURSIVE SubstitutedText(_)
SubstitutedText(lines) ==
    IF lines = <<>> THEN <<>>
    ELSE SubstitutedFrom(Head(lines), 1, TemplateStarts(Head(lines), 1))
         \o <<Newline>> \o SubstitutedText(Tail(lines))

LinesFit(content) ==
    \A i \in 1..Len(ScanLines(content)) : ~TooLong(ScanLines(content)[i])
PlainMappings ==
    \A k \in DOMAIN mappings :
        mappings[k].Type = RawVariableType /\ ~mappings[k].AutoIndent
HasMappedTemplate(content) ==
    \E i \in 1..Len(content) :
        IsTemplateAt(content, i) /\ SubSeq(content, i, i + 2) \in DOMAIN mappings
FirstRunDone == tplPc = "returned" /\ tplErr = "nil" /\ tplRuns = 1
SecondRunDone == tplPc = "returned" /\ tplErr = "nil" /\ tplRuns = 2

\* C14: a run writes every line with all its templates substituted, those
\* without a mapping as they were; and when no value holds a template, a
\* second run leaves the content as the first run wrote it.
C14_SubstitutesAndIsIdempotent ==
    /\ FirstRunDone /\ PlainMappings =>
           pathContent = SubstitutedText(ScanLines(contentAtCall))
    /\ SecondRunDone /\ (\A k \in DOMAIN mappings : ~HasTemplate(mappings[k].Value)) =>
           pathContent = contentAtCall

\* What does hold: the same for a file whose lines fit the scanner's buffer;
\* and a second run leaves the content as the first run wrote it when that
\* content holds no template with a mapping and its lines fit the buffer.
C14_SubstitutesAndIsIdempotentOnRenderedText ==
    /\ FirstRunDone /\ PlainMappings /\ LinesFit(contentAtCall) =>
           pathContent = SubstitutedText(ScanLines(contentAtCall))
    /\ SecondRunDone /\ ~HasMappedTemplate(contentAtCall) /\ LinesFit(contentAtCall) =>
           pathContent = contentAtCall

\* The second run on a text in which the first run has substituted a
\* template and left another, without a mapping, as it was.
SubstitutedTwice ==
    /\ SecondRunDone
    /\ mappings # NoMappings
    /\ PlainMappings
    /\ rendered.input = TemplateOf("a") \o TemplateOf("b")
    /\ rendered.content = mappings[TemplateOf("a")].Value \o TemplateOf("b") \o <<Newline>>
    /\ ~HasMappedTemplate(contentAtCall)
    /\ pathContent = contentAtCall

\* The leading whitespace of a text.
RECURSIVE LeadingWhitespace(_)
LeadingWhitespace(t) ==
    IF t # <<>> /\ Head(t) = " " THEN <<" ">> \o LeadingWhitespace(Tail(t))
    ELSE <<>>

\* The line with each mapped template replaced by its value, in which every
\* newline is followed by the indent for the text between the template and
\* the template before it, or the start of the line.
SpacesFor(pre) == Repeat(" ", Len(pre))

IndentFor(pre, leading) ==
    IF leading THEN LeadingWhitespace(pre) ELSE SpacesFor(pre)

RECURSIVE IndentedFrom(_, _, _, _)
IndentedFrom(line, from, starts, leading) ==
    IF starts = <<>> THEN SubSeq(line, from, Len(line))
    ELSE LET i == Head(starts)
             key == SubSeq(line, i, i + 2)
             pre == SubSeq(line, from, i - 1)
         IN  pre
             \o (IF key \in DOMAIN mappings
                 THEN ReplaceAllNewlines(mappings[key].Value,
                                         <<Newline>> \o IndentFor(pre, leading))
                 ELSE key)
             \o IndentedFrom(line, i + 3, Tail(starts), leading)
RECURSIVE IndentedText(_, _)
IndentedText(lines, leading) ==
    IF lines = <<>> THEN <<>>
    ELSE IndentedFrom(Head(lines), 1, TemplateStarts(Head(lines), 1), leading)
         \o <<Newline>> \o IndentedText(Tail(lines), leading)

AutoIndentMappings ==
    /\ mappings # NoMappings
    /\ \A k \in DOMAIN mappings :
           mappings[k].AutoIndent /\ mappings[k].isText /\ mappings[k].readable

\* C15: with autoindent, every newline of the substituted value is followed
\* by the whitespace that preceded the template on its line.
C15_IndentIsLeadingWhitespace ==
    FirstRunDone /\ AutoIndentMappings /\ LinesFit(contentAtCall) =>
        pathContent = IndentedText(ScanLines(contentAtCall), TRUE)

\* C15, as the code has it: every newline of the substituted value is followed
\* by as many spaces as there are characters between the template and the
\* template before it on the line, or the start of the line.
C15_IndentIsLengthOfPreTemplate ==
    FirstRunDone /\ AutoIndentMappings /\ LinesFit(contentAtCall) =>
        pathContent = IndentedText(ScanLines(contentAtCall), FALSE)

\* A value of two lines substituted after the text " a": its second line
\* starts with two spaces.
C15_Witness ==
    /\ FirstRunDone
    /\ AutoIndentMappings
    /\ contentAtCall = <<" ", "a">> \o TemplateOf("a")
    /\ mappings[TemplateOf("a")].Value = <<"a", Newline, "a">>
    /\ pathContent = <<" ", "a", "a", Newline, " ", " ", "a", Newline>>

\* The line with each template of a file that is not text, or cannot be read,
\* left out, and the text around it kept.
RECURSIVE WithoutTemplatesFrom(_, _, _)
WithoutTemplatesFrom(line, from, starts) ==
    IF starts = <<>> THEN SubSeq(line, from, Len(line))
    ELSE LET i == Head(starts)
             key == SubSeq(line, i, i + 2)
         IN  SubSeq(line, from, i - 1)
             \o (IF key \in DOMAIN mappings THEN <<>> ELSE key)
             \o WithoutTemplatesFrom(line, i + 3, Tail(starts))
RECURSIVE WithoutTemplates(_)
WithoutTemplates(lines) ==
    IF lines = <<>> THEN <<>>
    ELSE WithoutTemplatesFrom(Head(lines), 1, TemplateStarts(Head(lines), 1))
         \o <<Newline>> \o WithoutTemplates(Tail(lines))

SkippedMappings ==
    /\ mappings # NoMappings
    /\ \A k \in DOMAIN mappings :
           /\ mappings[k].Type = FileVariableType
           /\ ~mappings[k].isText \/ ~mappings[k].readable

\* C16: when the file of a template is not text or cannot be read, only the
\* template is left out: the text before it and after it on the line is
\* written, and the other templates of the line are processed.
C16_SkipsOnlyTheSubstitution ==
    FirstRunDone /\ SkippedMappings /\ LinesFit(contentAtCall) =>
        pathContent = WithoutTemplates(ScanLines(contentAtCall))

\* C17: while ReplaceTextTemplate runs and after it has returned, the file
\* holds the content it had at the call or, once the call has succeeded, the
\* rendered text; when the file cannot be opened nothing is written.
C17_OriginalOrRenderedContent ==
    tplPc # "idle" =>
        \/ pathContent = contentAtCall
        \/ tplPc = "returned" /\ tplErr = "nil" /\ pathContent = text

----------------------------------------------------------------------------
(* C18..C20: the composition of the components                              *)

ComposeDone == composePc = "returned" /\ composeErr = "nil"
\* The component at i is of the architecture of the build, or of none, and
\* in ComposeComponents of the flavor of the build, or of none.
KeptAtCall(i) ==
    /\ componentsAtCall[i].Architecture \in {"", arch}
    /\ composeFn = "ComposeComponents" => componentsAtCall[i].Flavor \in {"", Flavor}
RECURSIVE KeptFrom(_)
KeptFrom(i) ==
    IF i > Len(componentsAtCall) THEN <<>>
    ELSE (IF KeptAtCall(i) THEN <<i>> ELSE <<>>) \o KeptFrom(i + 1)
IndicesOf(cs) == [k \in 1..Len(cs) |-> cs[k].index]

\* C18: the composed package holds one component for every component whose
\* architecture (and, in ComposeComponents, flavor) is empty or the one of the
\* build, in the order of the input, and a chain is built for these only.
C18_KeptComponentsInOrder ==
    /\ ComposeDone =>
           /\ IndicesOf(pkgComponents) = KeptFrom(1)
           /\ IndicesOf(chains) = KeptFrom(1)
    /\ \A k \in 1..Len(chains) : KeptAtCall(chains[k].index)

\* A package of which a component was skipped and another, of the
\* architecture of the build, composed.
C18_Witness ==
    /\ ComposeDone
    /\ Len(componentsAtCall) >= 2
    /\ \E i \in 1..Len(componentsAtCall) : ~KeptAtCall(i)
    /\ \E i \in 1..Len(componentsAtCall) :
           KeptAtCall(i) /\ componentsAtCall[i].Architecture = arch
    /\ pkgComponents # <<>>

\* C19: ComposeComponents returns the warnings of the migration of every
\* chain it has built.
C19_AllWarningsReturned ==
    ComposeDone /\ composeFn = "ComposeComponents" =>
        \A k \in 1..Len(chains) :
            \A j \in 1..Len(chains[k].warnings) :
                \E n \in 1..Len(warnings) : warnings[n] = chains[k].warnings[j]

\* C20: after composeComponents, OCIImportedComponents holds the import of
\* every chain that contains an OCI import.
C20_EveryOCIImportRecorded ==
    ComposeDone /\ composeFn = "composeComponents" =>
        \A k \in 1..Len(chains) :
            chains[k].import.oci =>
                /\ chains[k].import.url \in DOMAIN OCIImportedComponents
                /\ OCIImportedComponents[chains[k].import.url] = chains[k].import.name

----------------------------------------------------------------------------
(* C21: OCISource.LoadPackage                                               *)

Pulled == layersFetched.returned /\ ~layersFetched.err
NoSelection == OptionalComponents = {} \/ ~Confirm

\* C21: the integrity of the package is validated in partial mode only when a
\* strict subset of its layers was pulled; without a selection of components
\* the whole package is pulled and validated in full mode, and LoadPackage
\* does not succeed when a file of checksums.txt is missing.
C21_PartialOnlyForStrictSubset ==
    /\ Pulled /\ isPartial => layersFetched.copied # RootLayers(published)
    /\ Pulled /\ NoSelection =>
           /\ layersFetched.copied = RootLayers(published)
           /\ ~isPartial
    /\ ociPc = "returned" /\ ociErr = "nil" /\ NoSelection => ~missingFile

----------------------------------------------------------------------------
(* C22: Copy and its progress tracker                                       *)

TrackerOps == {"Start", "Update", "Finish", "Write"}
Positions(op) == {i \in 1..Len(copyLog) : copyLog[i].op = op}
UpdatesOf(layer) ==
    {i \in Positions("Update") : copyLog[i].layer = layer}
\* The layers the run has found in the destination, and those it has pushed.
SkippedLayers ==
    {copyLog[i].layer : i \in {j \in Positions("Exists") : copyLog[j].result = "true"}}
\* The layers whose bytes the tracker refused.
RefusedLayers ==
    {copyLog[i].layer : i \in {j \in Positions("Write") : copyLog[j].result = "error"}}
CopyReturnedAfterStart == copyPc = "returned" /\ copyErr # "ErrFetchRoot"

\* What C22 says of the calls on the tracker but for the number of Updates.
StartUpdateFinish ==
    /\ copyPc # "idle" /\ copyTracked /\ copyErr # "ErrFetchRoot" =>
           /\ Positions("Start") = {1}
           /\ Cardinality(Positions("Finish")) <= 1
           /\ \A i \in Positions("Finish") : i = Len(copyLog) /\ copyPc = "returned"
    /\ CopyReturnedAfterStart /\ copyTracked => Positions("Finish") = {Len(copyLog)}
    /\ ~copyTracked => \A i \in 1..Len(copyLog) : copyLog[i].op \notin TrackerOps
    /\ copyPc = "returned" /\ copyErr = "nil" =>
           /\ Range(copyLayers) \subseteq dstBlobs
           /\ Pushed(copyLog) = Range(copyLayers) \ SkippedLayers

\* C22: with a tracker, Start is called once, before every Update, and Finish
\* once, last, on every return after Start; Update is called once for every
\* layer that was skipped or copied; without a tracker no method of it is
\* called, and the layers copied are the same.
C22_StartUpdatesFinish ==
    /\ StartUpdateFinish
    /\ copyTracked =>
           \A layer \in Range(copyLayers) :
               Cardinality(UpdatesOf(layer)) =
                   IF layer \in SkippedLayers \cup Pushed(copyLog) THEN 1 ELSE 0

\* C22, as the code has it: a layer that was pushed while the tracker refused
\* its bytes gets no Update, Copy returning the tracker's error.
C22_StartUpdatesFinishUnlessWriteFails ==
    /\ StartUpdateFinish
    /\ copyTracked =>
           \A layer \in Range(copyLayers) :
               Cardinality(UpdatesOf(layer)) =
                   IF layer \in SkippedLayers \cup (Pushed(copyLog) \ RefusedLayers)
                   THEN 1 ELSE 0
    /\ \A layer \in RefusedLayers :
           copyPc = "returned" /\ copyErr \in {"ErrPush", "ErrProgress"}

\* A tracked run that has skipped a layer, pushed another and returned nil.
C22_Witness ==
    /\ copyPc = "returned"
    /\ copyErr = "nil"
    /\ copyTracked
    /\ SkippedLayers # {}
    /\ Pushed(copyLog) # {}
    /\ Cardinality(Positions("Update")) = Len(copyLayers)
    /\ copyLog[Len(copyLog)].op = "Finish"

----------------------------------------------------------------------------
(* C23, C30: bigbang Create                                                 *)

\* C23: the temp directory that Create has made is gone when Create returns,
\* whatever was written into it.
C23_TempDirRemovedOnReturn ==
    createPc = "returned" /\ createErr # ReturnedWhenFails("MakeTempDir") => tmpDir = "removed"

\* C30: Create returns nil only when it has written the package definition,
\* under the name bigbang-zarf.yaml when baseDir had a zarf.yaml; when a step
\* has failed it returns an error.
C30_NilOnlyAfterDefinitionWritten ==
    /\ createPc = "returned" /\ createErr = "nil" =>
           \E name \in {ZarfYaml, BigbangZarfYaml} : WrittenByCreate(name) \in baseFiles
    /\ WrittenByCreate(BigbangZarfYaml) \in baseFiles =>
           WrittenByCreate(ZarfYaml) \notin baseFiles
    /\ createPc = "returned" /\ createFailed => createErr # "nil"

----------------------------------------------------------------------------
(* C24: NewFromZarfManifest                                                 *)

HexDigits == {"0", "1", "2", "3", "4", "5", "6", "7", "8", "9",
              "a", "b", "c", "d", "e", "f"}
ExpectedChartName(in) ==
    <<"r", "a", "w", "-">> \o in.packageName \o <<"-">> \o in.componentName
    \o <<"-">> \o in.Name

C24_DifferentNamesDifferentCharts ==
    \A i, j \in 1..Len(helmCharts) :
        helmCharts[i].in # helmCharts[j].in =>
            /\ helmCharts[i].Name # helmCharts[j].Name
            /\ helmCharts[i].ReleaseName # helmCharts[j].ReleaseName

----------------------------------------------------------------------------
(* C25: SplitFile on 10 MiB with parts of 3 MiB                             *)

\* The 10 MiB archive split with a part size of 3 MiB, its parts written and
\* not yet collected.
TenMiBWritten ==
    /\ splitPc = "written"
    /\ collectPc = "idle"
    /\ collects = 0
    /\ Len(original) = 10
    /\ chunkSizeAtCall = 3

\* The data parts of the directory, in lexical order.
DataPartNames == {n \in DOMAIN files : n \in AllPartNames \ {Part000}}
RECURSIVE BytesOfParts(_)
BytesOfParts(i) ==
    IF i > Len(Names) THEN <<>>
    ELSE (IF Names[i] \in DataPartNames THEN files[Names[i]].bytes ELSE <<>>)
         \o BytesOfParts(i + 1)

\* The number of chunks of a file of n units cut every size units.
ChunksOf(n, size) == (n + size - 1) \div size

\* What holds of the parts whatever their number: the header's size and
\* sha256, the join of the data parts, and the tarball Collect reassembles.
SplitJoins ==
    /\ TenMiBWritten =>
         /\ files[Part000].header.size * MiB = 10485760
         /\ files[Part000].header.sha256Sum = Sha256(original)
         /\ BytesOfParts(1) = original
    /\ splitPc = "written" /\ Len(original) = 10 /\ chunkSizeAtCall = 3
         /\ collectPc = "returned" /\ collectErr = "nil" =>
         files[Tarball].bytes = original

\* C25: splitting a 10 MiB archive with a part size of 3 MiB gives the header
\* part 000 with count 3 and size 10485760 and the data parts 001 to 003, and
\* the data parts joined are the archive, whose SHA-256 is the header's.
C25_TenMiBInThreeChunks ==
    /\ SplitJoins
    /\ TenMiBWritten =>
         /\ files[Part000].header.count = 3
         /\ Len(chunks) = 3
         /\ DataPartNames = {Names[i] : i \in 3..5}

\* C25, amended: the archive is cut into 4 chunks, of 3, 3, 3 and 1 MiB: the
\* header has count 4 and the data parts are 001 to 004; in general a file is
\* cut into as many chunks as its size divided by the part size, rounded up.
C25_TenMiBInFourChunks ==
    /\ SplitJoins
    /\ TenMiBWritten =>
         /\ files[Part000].header.count = 4
         /\ Len(chunks) = 4
         /\ \A i \in 1..3 : Len(chunks[i]) = 3
         /\ Len(chunks[4]) = 1
         /\ DataPartNames = {Names[i] : i \in 3..6}
    /\ splitPc \in {"returned", "written"} =>
         Len(chunks) = ChunksOf(Len(original), chunkSizeAtCall)

\* The 10 MiB archive split into parts of 3 MiB and reassembled by Collect.
C25_Witness ==
    /\ splitPc = "written"
    /\ Len(original) = 10
    /\ chunkSizeAtCall = 3
    /\ Len(chunks) = 4
    /\ collectPc = "returned"
    /\ collectErr = "nil"
    /\ files[Tarball].bytes = original

----------------------------------------------------------------------------
(* C26: ExecuteWait, waitForNetworkEndpoint                                 *)

WaitReturned == waitPc = "returned"

\* The check of the current turn passed: kubectl get succeeded and, unless the
\* condition is empty, exist or exists, kubectl wait succeeded; or the
\* endpoint answered with the required status, or accepted the connection.
CheckPassed ==
    IF waitIn.kind \in {"http", "https"}
    THEN IF waitIn.condition \in {"", "Success"}
         THEN waitIter.status >= 200 /\ waitIter.status <= 299
         ELSE waitIn.condition = "404" /\ waitIter.status = 404
    ELSE IF waitIn.kind = "tcp"
    THEN waitIter.conn = "closed"
    ELSE /\ waitIter.get \in {"ok", "notfound"}
         /\ waitIn.condition \notin {"", "exist", "exists"} =>
                waitIter.wait = "ok"

\* The check of the current turn failed.
CheckFailed ==
    \/ waitIter.get = "err"
    \/ waitIter.wait = "err"
    \/ waitIter.conn \in {"dial failed", "close failed"}
    \/ waitIter.status >= 0 /\ ~CheckPassed

\* C26: ExecuteWait and waitForNetworkEndpoint always return, given that
\* every call they make returns; they return nil only from a turn that began
\* before the timeout expired and whose check passed; a check that fails is
\* retried after the delay and not returned; the first turn that begins after
\* the timeout has expired returns "wait timed out".
C26_WaitAlwaysReturns ==
    /\ <>WaitReturned
    /\ [](WaitReturned /\ waitErr = "nil" =>
            /\ waitIter.began >= 0
            /\ waitIter.began <= waitDeadline
            /\ CheckPassed)
    /\ [](CheckFailed => waitPc \in {"sleep", "select"} /\ waitErr = "none")
    /\ [](waitIter.began > waitDeadline =>
            WaitReturned /\ waitErr = "wait timed out")

\* kubectl wait succeeded in a later turn, begun before the timeout expired
\* and ended after it, an earlier check having failed.
C26_Witness ==
    /\ WaitReturned
    /\ waitErr = "nil"
    /\ waitIn.kind = "pod"
    /\ waitIn.condition = "Ready"
    /\ waitIter.began >= 2 * Second
    /\ waitIter.wait = "ok"
    /\ waitNow > waitDeadline

----------------------------------------------------------------------------
(* C27: the goroutines and the semaphore of Copy                            *)

CpReturned == cpPc = "returned"

\* C27: with concurrency >= 1 Copy returns, its registry calls returning;
\* when one of the two goroutines of a layer fails the other one finishes as
\* well, no write to the pipe stays pending and Copy returns an error; no
\* permit of the semaphore is taken when Copy calls Acquire.
C27_CopyAlwaysReturns ==
    /\ cpIn.concurrency >= 1 => <>CpReturned
    /\ [](cpPc = "acquire" => sem = 0)
    /\ cpIn.concurrency >= 1 =>
         /\ (progressG = "failed") ~> (Finished(pushG) /\ CpReturned)
         /\ (pushG = "failed") ~> (Finished(progressG) /\ CpReturned)
    /\ [](CpReturned /\ (progressG = "failed" \/ pushG = "failed") =>
            /\ cpErr \in {"ErrPush", "ErrProgress"}
            /\ cpErr = egErr
            /\ Finished(progressG)
            /\ Finished(pushG)
            /\ cpIn.tracked => ~pipe.pending)

\* The tracker's Write failed on the second layer while rc had more to give:
\* the pusher, its write to the pipe pending, ended with the cancelled
\* context, and Copy returned the error of the tracker.
C27_Witness ==
    /\ CpReturned
    /\ cpIdx = 2
    /\ progressG = "failed"
    /\ pushG = "failed"
    /\ rcLeft > 0
    /\ cpErr = "ErrProgress"
    /\ pipe.closed

----------------------------------------------------------------------------
(* C28: a second load from the same SplitTarballSource                      *)

\* Collect has returned from a call made after an earlier call had succeeded
\* and LoadPackage or LoadPackageMetadata had set PackageSource to the
\* reassembled tarball.
SecondCollectReturned ==
    /\ collectPc = "returned"
    /\ collects >= 2
    /\ PackageSource = Tarball
    /\ Tarball \in DOMAIN filesAtCall

\* C28: after a load from a SplitTarballSource has succeeded, a following
\* load from the same source object succeeds and leaves the content of the
\* reassembled tarball unchanged (os.Create refusing the file is no fault of
\* the source).
C28_SecondLoadSucceeds ==
    SecondCollectReturned =>
        /\ collectErr \in {"nil", "ErrCreate"}
        /\ Tarball \in DOMAIN files
        /\ files[Tarball].bytes = filesAtCall[Tarball].bytes

----------------------------------------------------------------------------
(* C29: PackageSecretNeedsWait                                              *)

\* The running hooks of the component in the deployed package.
RunningHooksOfComponent ==
    IF nwIn.deployedPackage = NoPackage THEN {}
    ELSE IF nwIn.component \notin DOMAIN nwIn.deployedPackage.ComponentWebhooks
    THEN {}
    ELSE {h \in HookNames :
            nwIn.deployedPackage.ComponentWebhooks[nwIn.component][h].status
                = "running"}

\* C29: needsWait is true exactly when skipWebhooks is false, the deployed
\* package is non-nil and no YOLO package, and ComponentWebhooks holds a
\* running hook for the component's name; the wait seconds and the hook name
\* returned are then those of one running hook of that component; in every
\* other case the result is (false, 0, "").
C29_NeedsWaitExactlyForRunningHook ==
    nwPc = "returned" =>
        /\ nwOut[1] = (/\ ~nwIn.skipWebhooks
                       /\ nwIn.deployedPackage # NoPackage
                       /\ ~nwIn.deployedPackage.yolo
                       /\ RunningHooksOfComponent # {})
        /\ nwOut[1] =>
              /\ nwOut[3] \in RunningHooksOfComponent
              /\ nwOut[2] = nwIn.deployedPackage.ComponentWebhooks
                                [nwIn.component][nwOut[3]].waitDurationSeconds
        /\ ~nwOut[1] => nwOut = <<FALSE, 0, "">>

\* The component has two running hooks with different wait seconds, and the
\* second one is returned.
C29_Witness ==
    /\ nwPc = "returned"
    /\ nwOut[1]
    /\ nwOut[3] = "h2"
    /\ Cardinality(RunningHooksOfComponent) = 2
    /\ nwIn.deployedPackage.ComponentWebhooks["a"]["h1"].waitDurationSeconds
         # nwOut[2]

============================================================================
